---------------------------- MODULE Spec2Model ----------------------------
(***************************************************************************)
(* Model of synesenom/model.py: goodness-of-fit and information measures,  *)
(* the empirical pmf/cdf utilities and the model-selection runs.           *)
(*                                                                         *)
(* Real numbers are fixed-point integers with three decimals (1.0 is       *)
(* 1000); a division whose result is kept as a real truncates to that      *)
(* precision.  The empirical pmf and cdf are exact fractions num/den.      *)
(***************************************************************************)
EXTENDS Integers, Sequences, FiniteSets, TLC

VARIABLES
    data_cdf_,      \* ks_statistics: first argument
    model_cdf_,     \* ks_statistics: second argument
    ksd,            \* ks_statistics: what the call returned (or raised)
    samples,        \* get_sample_pmf / get_sample_cdf: the argument
    sample_pmf,     \* what get_sample_pmf returned (or raised)
    sample_cdf,     \* what get_sample_cdf returned (or raised)
    method,         \* the selection run under way: perform_<m>_test or test_<m>_ms
    data,           \* the run's sample (data / test_sample)
    pc,             \* the run's position
    d_idx,          \* index in dist.get() of the variant the current loop is at
    fit_results,    \* dict: variant -> fit result
    ic,             \* dict: variant -> criterion value (aic / bic)
    dic,            \* dict: variant -> criterion difference (daic / dbic / delta_aic / delta_bic)
    weights,        \* dict: variant -> weight
    weights_total,  \* perform_aic_test / perform_bic_test: sum of the raw weights
    best_model,     \* test_*_ms: the variant designated so far
    best_ksd,       \* test_ks_ms: the smallest D seen so far
    r,              \* K-S runs: bootstrap trials done for the current variant
    p,              \* K-S runs: trials whose D exceeded the fitted D
    printed,        \* dict: variant -> what the run printed for it
    output,         \* whether print_pmfs has written the table
    dtype,          \* the element type of the run's sample as a numpy array
    table,          \* print_pmfs: the rows handed to print_csv (or raised)
    synthetic,      \* K-S runs: size and D of the current variant's synthetic samples
    v_cls,          \* a variant class: Poisson, Exponential, ...
    v_params,       \* the parameter vector handed to its entry points
    v_domain,       \* the domain handed to pmf and samples
    v_size,         \* the size handed to samples
    v_pmf,          \* what <v_cls>.pmf returned, and the branch it took
    v_samples,      \* what <v_cls>.samples returned, and the branch it took
    v_ll,           \* what <v_cls>.log_likelihood evaluated, and the branch it took
    q_entry,        \* the entry point of distribution.py / fit.py that was called
    q_distribution, \* the variant tag it was called with
    q_params,       \* the parameter vector it was called with
    q_data,         \* the sample it was called with
    q_nonzero_only, \* the nonzero_only flag it was called with
    q_result,       \* what the call returned (or raised)
    seeds,          \* fit.py: the module's table INITIAL_FITTING_PARAMS
    fit_calls,      \* the fits made so far: what each started from and returned
    nelder_mead,    \* the searches made so far: objective and start -> result
    f_data          \* the sample a sequence of fits is made on

ksVars == <<data_cdf_, model_cdf_, ksd>>
sampleVars == <<samples, sample_pmf, sample_cdf>>
runVars == <<method, data, pc, d_idx, fit_results, ic, dic, weights, weights_total,
             best_model, best_ksd, r, p, printed, output, synthetic,
             dtype, table>>
variantVars == <<v_cls, v_params, v_domain, v_size, v_pmf, v_samples, v_ll>>
callVars == <<q_entry, q_distribution, q_params, q_data, q_nonzero_only, q_result>>

fitVars == <<seeds, fit_calls>>
fitsVars == <<nelder_mead, f_data>>

vars == <<ksVars, sampleVars, runVars, variantVars, callVars, fitVars, fitsVars>>

notKsVars == <<sampleVars, runVars, variantVars, callVars, fitVars, fitsVars>>
notSampleVars == <<ksVars, runVars, variantVars, callVars, fitVars, fitsVars>>
notRunVars == <<ksVars, sampleVars, variantVars, callVars, fitVars, fitsVars>>
notVariantVars == <<ksVars, sampleVars, runVars, callVars, fitVars, fitsVars>>
notCallVars == <<ksVars, sampleVars, runVars, variantVars, fitVars, fitsVars>>
notRunFitVars == <<ksVars, sampleVars, variantVars, callVars, fitsVars>>
notCallFitVars == <<ksVars, sampleVars, runVars, variantVars, fitsVars>>

---------------------------------------------------------------------------
(* Fixed-point reals and numpy helpers                                     *)

\* The fixed-point image of the integer n.
Fx(n) == 1000 * n

One == Fx(1)

Abs(x) == IF x < 0 THEN -x ELSE x

\* A call that has not been made yet.
NotCalled == [called |-> FALSE, raised |-> FALSE, value |-> 0]

Returned(v) == [called |-> TRUE, raised |-> FALSE, value |-> v]

\* A call that ended in a Python exception.
Raised == [called |-> TRUE, raised |-> TRUE, value |-> 0]

np_ones(n) == [i \in 1..n |-> 1000]

np_append(s, t) == s \o t

np_sub(s, t) == [i \in 1..Len(s) |-> s[i] - t[i]]

np_abs(s) == [i \in 1..Len(s) |-> Abs(s[i])]

\* np.max raises ValueError on an empty array.
np_max(s) ==
    IF Len(s) = 0 THEN Raised
    ELSE Returned(CHOOSE m \in {s[i] : i \in 1..Len(s)} :
                      \A i \in 1..Len(s) : s[i] <= m)

---------------------------------------------------------------------------
(* calculation/measures.py                                                 *)

\* ks_statistics taking the maximum of the signed differences.
ks_statistics_no_abs(a, b) ==
    LET _size_diff == Len(a) - Len(b)
    IN  IF _size_diff > 0
        THEN np_max(np_sub(a, np_append(b, np_ones(_size_diff))))
        ELSE IF _size_diff < 0
        THEN np_max(np_sub(np_append(a, np_ones(-_size_diff)), b))
        ELSE np_max(np_sub(a, b))

\* ks_statistics with the second padding branch appending zeros.
ks_statistics_zero_pad(a, b) ==
    LET _size_diff == Len(a) - Len(b)
    IN  IF _size_diff > 0
        THEN np_max(np_abs(np_sub(a, np_append(b, np_ones(_size_diff)))))
        ELSE IF _size_diff < 0
        THEN np_max(np_abs(np_sub(np_append(a, [i \in 1..(-_size_diff) |-> 0]), b)))
        ELSE np_max(np_abs(np_sub(a, b)))

ks_statistics(a, b) ==
    LET _size_diff == Len(a) - Len(b)
    IN  IF _size_diff > 0
        THEN np_max(np_abs(np_sub(a, np_append(b, np_ones(_size_diff)))))
        ELSE IF _size_diff < 0
        THEN np_max(np_abs(np_sub(np_append(a, np_ones(-_size_diff)), b)))
        ELSE np_max(np_abs(np_sub(a, b)))

---------------------------------------------------------------------------
(* distributions/distribution.py: empirical pmf and cdf                    *)

\* An exact fraction num/den, den > 0.
Frac(n, d) == [num |-> n, den |-> d]

FracAdd(x, y) ==
    IF x.den = y.den THEN Frac(x.num + y.num, x.den)
    ELSE Frac(x.num * y.den + y.num * x.den, x.den * y.den)

FracEq(x, y) == x.num * y.den = y.num * x.den

FracLeq(x, y) == x.num * y.den <= y.num * x.den

\* Python's int() of a fixed-point real: truncation towards zero.
int(x) == IF x >= 0 THEN x \div 1000 ELSE -((-x) \div 1000)

\* The array divided elementwise by the integer n.
np_div(counts, n) == [i \in 1..Len(counts) |-> Frac(counts[i], n)]

\* The loop "for _s in samples: _sample_pmf[int(_s)] += 1", from entry j on.
RECURSIVE tally(_, _, _)
tally(_sample_pmf, smpl, j) ==
    IF j > Len(smpl) THEN _sample_pmf
    ELSE tally([_sample_pmf EXCEPT ![int(smpl[j]) + 1] = @ + 1], smpl, j + 1)

\* get_sample_pmf normalising by the length of the histogram.
get_sample_pmf_by_bins(smpl) ==
    LET top == np_max(smpl)
    IN  IF top.raised THEN Raised
        ELSE LET zeros == [i \in 1..int(top.value + Fx(1)) |-> 0]
                 hist == tally(zeros, smpl, 1)
             IN  Returned(np_div(hist, Len(hist)))

get_sample_pmf(smpl) ==
    LET top == np_max(smpl)
    IN  IF top.raised THEN Raised
        ELSE LET zeros == [i \in 1..int(top.value + Fx(1)) |-> 0]
             IN  Returned(np_div(tally(zeros, smpl, 1), Len(smpl)))

\* np.cumsum of an array of fractions: the running total up to entry k.
RECURSIVE running_total(_, _)
running_total(s, k) ==
    IF k = 1 THEN s[1] ELSE FracAdd(running_total(s, k - 1), s[k])

np_cumsum(s) == [k \in 1..Len(s) |-> running_total(s, k)]

\* get_sample_cdf returning the pmf itself.
get_sample_cdf_no_cumsum(smpl) == get_sample_pmf(smpl)

get_sample_cdf(smpl) ==
    LET _pmf == get_sample_pmf(smpl)
    IN  IF _pmf.raised THEN Raised ELSE Returned(np_cumsum(_pmf.value))

---------------------------------------------------------------------------
(* Real-valued library functions in fixed point                            *)

\* a / b for a >= 0 and b > 0, rounded to the nearest representable value.
fx_div(a, b) == (a * 1000 + b \div 2) \div b

\* e^(-y/1000) for 0 <= y < 1000: eight terms of the series, nested.
RECURSIVE exp_series(_, _, _)
exp_series(y, k, h) ==
    IF k = 0 THEN h
    ELSE exp_series(y, k - 1, 1000 - (y * h + 500 * k) \div (1000 * k))

\* exp(x) for x <= 0, within one unit of the last place.
RECURSIVE exp(_)
exp(x) ==
    IF x <= -1000 THEN (exp(x + 1000) * 368 + 500) \div 1000
    ELSE exp_series(-x, 8, 1000)

\* mpmath.ln at the integers the runs pass to it.
ln(n) ==
    IF n = 1000 THEN 6908
    ELSE <<0, 693, 1099, 1386, 1609, 1792, 1946, 2079, 2197, 2303, 2398, 2485>>[n]

---------------------------------------------------------------------------
(* calculation/measures.py: information criteria                           *)

\* aic_measure adding the log-likelihood and the parameter count.
aic_measure_sign(log_likelihood, params_num) ==
    -2 * (log_likelihood + Fx(params_num))

aic_measure(log_likelihood, params_num) ==
    -2 * (log_likelihood - Fx(params_num))

\* bic_measure with the sample size in place of its logarithm.
bic_measure_no_ln(log_likelihood, params_num, sample_size) ==
    -2 * log_likelihood + params_num * Fx(sample_size)

bic_measure(log_likelihood, params_num, sample_size) ==
    -2 * log_likelihood + params_num * ln(sample_size)

---------------------------------------------------------------------------
(* core/core.py: constants, Delta, Uniform, discrete sampling              *)

\* 0.001 in fixed point.
EPSILON == 1

\* Default domain size of a pmf (10000 in the source).
DEFAULT_PDF_MAX == 3

DEFAULT_SAMPLE_MAX == DEFAULT_PDF_MAX

\* Default number of draws (10000 in the source).
DEFAULT_SAMPLE_SIZE == 2

\* numpy's nan, what 0.0/0.0 evaluates to.
nan == -1000000

\* a * b for fixed-point reals, rounded to the nearest representable value.
fx_mul(a, b) == (a * b + 500) \div 1000

\* a / b for a of either sign and b > 0.
fx_quot(a, b) == IF a >= 0 THEN fx_div(a, b) ELSE -fx_div(-a, b)

\* mpmath.exp / np.exp: exp for x <= 0 (0 beyond the last place), and the
\* table of e^1, e^2, e^3 at the positive whole numbers.
mp_exp(x) ==
    IF x <= -20000 THEN 0
    ELSE IF x <= 0 THEN exp(x)
    ELSE <<2718, 7389, 20086>>[x \div 1000]

np_zeros(n) == [i \in 1..n |-> 0]

\* np.arange(a, b) of integers, as fixed-point reals.
np_arange(a, b) == [i \in 1..(b - a) |-> Fx(a + i - 1)]

RECURSIVE np_sum_first(_, _)
np_sum_first(s, k) == IF k = 0 THEN 0 ELSE np_sum_first(s, k - 1) + s[k]

np_sum(s) == np_sum_first(s, Len(s))

\* np.cumsum of an array of fixed-point reals.
cumsum(s) == [k \in 1..Len(s) |-> np_sum_first(s, k)]

\* array / total, nan where the total is 0.0 (numpy warns, it does not raise).
np_normalise(s, total) ==
    [i \in 1..Len(s) |-> IF total = 0 THEN nan ELSE fx_div(s[i], total)]

RECURSIVE int_power(_, _)
int_power(b, n) == IF n = 0 THEN One ELSE fx_mul(int_power(b, n - 1), b)

\* np.power(b, e) for b > 0 and a whole exponent e of either sign.
np_power(b, e) ==
    IF e >= 0 THEN int_power(b, e \div 1000)
    ELSE fx_div(One, int_power(b, (-e) \div 1000))

Max(a, b) == IF a >= b THEN a ELSE b

\* All sequences of length n over S.
RECURSIVE SeqsOfLen(_, _)
SeqsOfLen(S, n) ==
    IF n = 0 THEN {<<>>}
    ELSE {Append(s, x) : s \in SeqsOfLen(S, n - 1), x \in S}

\* Delta.pmf without the zeros after the point mass.
delta_pmf_unpadded(params, domain) ==
    np_append(np_zeros(int(params[1])), <<One>>)

\* Delta.pmf
delta_pmf(params, domain) ==
    LET real_domain == Max(int(params[1]), domain)
        _pmf == np_append(np_zeros(int(params[1])), <<One>>)
    IN  np_append(_pmf, np_zeros(real_domain - int(params[1])))

\* Delta.samples: the one sample the call returns.
delta_samples(params, size, domain) == {[i \in 1..size |-> Fx(int(params[1]))]}

\* Uniform.pmf
uniform_pmf(params, domain) ==
    [i \in 1..(domain + 1) |-> fx_div(One, Fx(domain + 1))]

\* Uniform.samples: np.random.uniform(0, domain, size), on a grid of halves.
uniform_samples(params, size, domain) ==
    SeqsOfLen({500 * h : h \in 0..Max(0, 2 * domain - 1)}, size)

\* generate_discrete_samples: rvs draws `size` values of positive probability;
\* no sample at all when there is no such value (rv_discrete raises).
generate_discrete_samples(values, probabilities, size) ==
    LET support == {values[i] : i \in {j \in 1..Len(values) : probabilities[j] > 0}}
    IN  IF support = {} THEN {} ELSE SeqsOfLen(support, size)

\* The branch an entry point of a variant takes: its own kernel, or a
\* fallback distribution with the location it is handed.
Kernel == [kind |-> "kernel", loc |-> 0]

ViaDelta(loc) == [kind |-> "delta", loc |-> loc]

ViaUniform == [kind |-> "uniform", loc |-> 0]

\* mpmath.zeta(s, a), the Hurwitz zeta function, at the points it is given.
zeta(s, a) ==
    CASE s = 500 /\ a = 1000 -> -1460
      [] s = 500 /\ a = 2000 -> -2460
      [] s = 2000 /\ a = 1000 -> 1645
      [] s = 2000 /\ a = 2000 -> 645

\* mpmath.polylog(s, z) at the points it is given; z = 0.368 is e^-1 and
\* z = 0.606 is e^-0.5 (as mp_exp has them).
polylog(s, z) ==
    CASE z = 0 -> 0
      [] s = 1000 /\ z = 368 -> 459
      [] s = 2000 /\ z = 368 -> 409
      [] s = 1000 /\ z = 606 -> 933
      [] s = 2000 /\ z = 606 -> 738

---------------------------------------------------------------------------
(* distributions/*.py: the branch each entry point takes                   *)

\* <Variant>.pmf: the substitution decision.
pmf_branch(cls, params) ==
    CASE cls = "Poisson" ->
            IF params[1] < EPSILON THEN ViaDelta(0) ELSE Kernel
      [] cls = "Exponential" ->
            IF params[1] < EPSILON THEN ViaDelta(0) ELSE Kernel
      [] cls = "Lognormal" ->
            IF params[2] < EPSILON THEN ViaDelta(mp_exp(params[1])) ELSE Kernel
      [] cls = "Normal" ->
            IF params[1] < EPSILON THEN ViaDelta(0)
            ELSE IF params[2] < EPSILON THEN ViaDelta(params[1])
            ELSE Kernel
      [] cls = "Weibull" ->
            IF params[1] < EPSILON \/ params[2] < EPSILON THEN ViaDelta(0) ELSE Kernel
      [] cls = "ShiftedPowerLaw" ->
            IF params[1] < EPSILON
            THEN IF params[2] < EPSILON THEN ViaDelta(0) ELSE ViaUniform
            ELSE IF zeta(params[1], params[2]) < EPSILON THEN ViaDelta(0) ELSE Kernel
      [] cls = "TruncatedPowerLaw" ->
            IF params[1] < EPSILON THEN ViaUniform
            ELSE IF params[2] < EPSILON THEN ViaDelta(One)
            ELSE IF polylog(params[1], mp_exp(-fx_div(One, params[2]))) < EPSILON
                 THEN ViaDelta(One)
                 ELSE Kernel

\* <Variant>.samples: the substitution decision.
samples_branch(cls, params) ==
    CASE cls = "Poisson" ->
            IF params[1] < EPSILON THEN ViaDelta(0) ELSE Kernel
      [] cls = "Exponential" ->
            IF params[1] < EPSILON THEN ViaDelta(0) ELSE Kernel
      [] cls = "Lognormal" ->
            IF params[2] < EPSILON THEN ViaDelta(mp_exp(params[1])) ELSE Kernel
      [] cls = "Normal" ->
            IF params[1] < EPSILON THEN ViaDelta(0)
            ELSE IF params[2] < EPSILON THEN ViaDelta(params[1])
            ELSE Kernel
      [] cls = "Weibull" ->
            IF params[1] < EPSILON \/ params[2] < EPSILON THEN ViaDelta(0) ELSE Kernel
      [] cls = "ShiftedPowerLaw" ->
            IF params[1] < EPSILON
            THEN IF params[2] < EPSILON THEN ViaDelta(0) ELSE ViaUniform
            ELSE IF zeta(params[1], params[2]) < EPSILON THEN ViaDelta(0) ELSE Kernel
      [] cls = "TruncatedPowerLaw" ->
            IF params[1] < EPSILON THEN ViaUniform
            ELSE IF params[2] < EPSILON THEN ViaDelta(One)
            ELSE IF polylog(params[1], mp_exp(-fx_div(One, params[2]))) < EPSILON
                 THEN ViaDelta(One)
                 ELSE Kernel

\* <Variant>.log_likelihood: the substitution decision.
log_likelihood_branch(cls, params) ==
    CASE cls = "Poisson" ->
            IF params[1] < EPSILON THEN ViaDelta(0) ELSE Kernel
      [] cls = "Exponential" ->
            IF params[1] < EPSILON THEN ViaDelta(0) ELSE Kernel
      [] cls = "Lognormal" ->
            IF params[1] < EPSILON \/ params[2] < EPSILON THEN ViaDelta(0) ELSE Kernel
      [] cls = "Normal" ->
            IF params[1] < EPSILON THEN ViaDelta(0)
            ELSE IF params[2] < EPSILON THEN ViaDelta(params[1])
            ELSE Kernel
      [] cls = "Weibull" ->
            IF params[1] < EPSILON \/ params[2] < EPSILON THEN ViaDelta(0) ELSE Kernel
      [] cls = "ShiftedPowerLaw" ->
            IF params[1] < EPSILON
            THEN IF params[2] < EPSILON THEN ViaDelta(0) ELSE ViaUniform
            ELSE IF zeta(params[1], params[2]) < EPSILON THEN ViaDelta(0) ELSE Kernel
      [] cls = "TruncatedPowerLaw" ->
            IF params[1] < EPSILON THEN ViaUniform
            ELSE IF params[2] < EPSILON THEN ViaDelta(One)
            ELSE IF polylog(params[1], mp_exp(-fx_div(One, params[2]))) < EPSILON
                 THEN ViaDelta(One)
                 ELSE Kernel

---------------------------------------------------------------------------
(* distributions/*.py: the kernels, pmf and samples                        *)

\* stats.poisson.pmf(k, lam) = exp(-lam) * lam^k / k!
RECURSIVE poisson_term(_, _)
poisson_term(k, lam) ==
    IF k = 0 THEN mp_exp(-lam)
    ELSE fx_div(fx_mul(poisson_term(k - 1, lam), lam), Fx(k))

poisson_kernel(params, domain) ==
    [i \in 1..(domain + 1) |-> poisson_term(i - 1, params[1])]

\* np.exp(-x/beta) over x
exponential_weights(params, x) ==
    [i \in 1..Len(x) |-> mp_exp(-fx_div(x[i], params[1]))]

exponential_kernel(params, domain) ==
    LET c == One - mp_exp(-fx_div(One, params[1]))
        w == exponential_weights(params, np_arange(0, domain + 1))
    IN  [i \in 1..Len(w) |-> fx_mul(w[i], c)]

\* np.exp(-0.5*np.power((np.log(x)-mu)/sigma, 2))/x over x
lognormal_weights(params, x) ==
    [i \in 1..Len(x) |->
        LET q == fx_quot(ln(int(x[i])) - params[1], params[2])
        IN  fx_div(mp_exp(-(fx_mul(q, q) \div 2)), x[i])]

lognormal_kernel(params, domain) ==
    LET _pmf == np_append(<<0>>, lognormal_weights(params, np_arange(1, domain + 1)))
    IN  np_normalise(_pmf, np_sum(_pmf))

\* np.exp(-0.5*np.power((x-mu)/sigma, 2)) over x
normal_weights(params, x) ==
    [i \in 1..Len(x) |->
        LET q == fx_quot(x[i] - params[1], params[2])
        IN  mp_exp(-(fx_mul(q, q) \div 2))]

normal_kernel(params, domain) ==
    LET _pmf == normal_weights(params, np_arange(0, domain + 1))
    IN  np_normalise(_pmf, np_sum(_pmf))

\* np.power(x, k-1)*np.exp(-np.power(x/lambda, k)) over x
weibull_weights(params, x) ==
    [i \in 1..Len(x) |->
        fx_mul(np_power(x[i], params[1] - One),
               mp_exp(-np_power(fx_div(x[i], params[2]), params[1])))]

\* 0 <= params[0] - 1 < co.EPSILON
weibull_at_one(params) == 0 <= params[1] - One /\ params[1] - One < EPSILON

weibull_kernel(params, domain) ==
    LET w == weibull_weights(params, np_arange(1, domain + 1))
        _pmf == IF weibull_at_one(params)
                THEN np_append(<<fx_div(One, params[2])>>, w)
                ELSE np_append(<<0>>, w)
    IN  np_normalise(_pmf, np_sum(_pmf))

\* np.power(x + x0, -gamma) over x
shifted_power_law_weights(params, x) ==
    [i \in 1..Len(x) |-> np_power(x[i] + params[2], -params[1])]

shifted_power_law_kernel(params, domain) ==
    LET c == zeta(params[1], params[2])
        w == shifted_power_law_weights(params, np_arange(0, domain + 1))
    IN  [i \in 1..Len(w) |-> fx_div(w[i], c)]

\* np.power(x, -gamma)*np.exp(-x/kappa) over x
truncated_power_law_weights(params, x) ==
    [i \in 1..Len(x) |->
        fx_mul(np_power(x[i], -params[1]), mp_exp(-fx_div(x[i], params[2])))]

\* TruncatedPowerLaw.pmf without the zero prepended for x = 0.
truncated_power_law_kernel_no_zero(params, domain) ==
    LET c == polylog(params[1], mp_exp(-fx_div(One, params[2])))
        w == truncated_power_law_weights(params, np_arange(1, domain + 1))
    IN  [i \in 1..Len(w) |-> fx_div(w[i], c)]

truncated_power_law_kernel(params, domain) ==
    LET c == polylog(params[1], mp_exp(-fx_div(One, params[2])))
        w == truncated_power_law_weights(params, np_arange(1, domain + 1))
    IN  np_append(<<0>>, [i \in 1..Len(w) |-> fx_div(w[i], c)])

\* <Variant>.pmf(params, domain)
variant_pmf(cls, params, domain) ==
    LET via == pmf_branch(cls, params)
    IN  IF via.kind = "delta" THEN delta_pmf(<<via.loc>>, domain)
        ELSE IF via.kind = "uniform" THEN uniform_pmf(<<>>, domain)
        ELSE CASE cls = "Poisson" -> poisson_kernel(params, domain)
               [] cls = "Exponential" -> exponential_kernel(params, domain)
               [] cls = "Lognormal" -> lognormal_kernel(params, domain)
               [] cls = "Normal" -> normal_kernel(params, domain)
               [] cls = "Weibull" -> weibull_kernel(params, domain)
               [] cls = "ShiftedPowerLaw" -> shifted_power_law_kernel(params, domain)
               [] cls = "TruncatedPowerLaw" -> truncated_power_law_kernel(params, domain)

\* <Variant>.samples(params, size, domain): the samples the call may return.
\* np.random.poisson is unbounded; its draws are capped at DEFAULT_SAMPLE_MAX.
variant_samples(cls, params, size, domain) ==
    LET via == samples_branch(cls, params)
    IN  IF via.kind = "delta"
        THEN IF cls = "Normal" /\ params[1] >= EPSILON
             THEN delta_samples(<<via.loc>>, domain, DEFAULT_SAMPLE_MAX)
             ELSE delta_samples(<<via.loc>>, size, DEFAULT_SAMPLE_MAX)
        ELSE IF via.kind = "uniform"
        THEN uniform_samples(<<>>, size, DEFAULT_SAMPLE_MAX)
        ELSE CASE cls = "Poisson" ->
                    SeqsOfLen({Fx(v) : v \in 0..DEFAULT_SAMPLE_MAX}, size)
               [] cls = "Exponential" ->
                    LET x == np_arange(0, domain + 1)
                    IN  generate_discrete_samples(x, exponential_weights(params, x), size)
               [] cls = "Lognormal" ->
                    LET x == np_arange(1, domain + 1)
                    IN  generate_discrete_samples(x, lognormal_weights(params, x), size)
               [] cls = "Normal" ->
                    LET x == np_arange(0, domain + 1)
                    IN  generate_discrete_samples(x, normal_weights(params, x), size)
               [] cls = "Weibull" ->
                    LET x == np_arange(1, domain + 1)
                        w == weibull_weights(params, x)
                    IN  IF weibull_at_one(params)
                        THEN generate_discrete_samples(
                                 np_append(<<0>>, x),
                                 np_append(<<fx_div(One, params[2])>>, w), size)
                        ELSE generate_discrete_samples(x, w, size)
               [] cls = "ShiftedPowerLaw" ->
                    LET x == np_arange(0, DEFAULT_SAMPLE_MAX + 1)
                    IN  generate_discrete_samples(
                            x, shifted_power_law_weights(params, x), size)
               [] cls = "TruncatedPowerLaw" ->
                    LET x == np_arange(1, domain + 1)
                    IN  generate_discrete_samples(
                            x, truncated_power_law_weights(params, x), size)

---------------------------------------------------------------------------
(* distributions/*.py, core/core.py: log_likelihood                        *)

\* data[np.where(data > 0)]
where_positive(data_) == SelectSeq(data_, LAMBDA s : s > 0)

\* What a log_likelihood evaluates: the observations it counts with len(),
\* the observations it sums over, the arguments it hands to ln / np.log, and
\* the weights it adds up to its normalising constant c (if it has one).
Terms(len_of, sum_of, logs, c_terms) ==
    [len_of |-> len_of, sum_of |-> sum_of, logs |-> logs, c_terms |-> c_terms]

\* Delta.log_likelihood: -len(data)*ln(EPSILON*sqrt(2*pi)) - ...
delta_log_likelihood(params, data_) ==
    Returned(Terms(data_, data_, <<fx_mul(EPSILON, 2507)>>, <<>>))

\* Uniform.log_likelihood: -len(data) * ln(float(np.max(data)))
uniform_log_likelihood(params, data_) ==
    IF np_max(data_).raised THEN Raised
    ELSE Returned(Terms(data_, <<>>, <<np_max(data_).value>>, <<>>))

\* Poisson.log_likelihood, kernel branch
poisson_log_likelihood(params, data_, nonzero_only) ==
    LET nonzero_samples == where_positive(data_)
        _sampes == IF nonzero_only THEN where_positive(data_) ELSE data_
        stirling == [i \in 1..Len(nonzero_samples) |->
                        One + fx_div(One, 12 * nonzero_samples[i])
                            + fx_div(One, 288 * fx_mul(nonzero_samples[i],
                                                       nonzero_samples[i]))]
    IN  Returned(Terms(_sampes, _sampes,
                       <<params[1], 6283>> \o nonzero_samples \o stirling, <<>>))

\* Exponential.log_likelihood, kernel branch
exponential_log_likelihood(params, data_, nonzero_only) ==
    LET _samples == IF nonzero_only THEN where_positive(data_) ELSE data_
    IN  Returned(Terms(_samples, _samples,
                       <<One - mp_exp(-fx_div(One, params[1]))>>, <<>>))

\* Lognormal.log_likelihood, kernel branch
lognormal_log_likelihood(params, data_, nonzero_only) ==
    LET nonzero_samples == where_positive(data_)
        x == np_arange(1, DEFAULT_PDF_MAX + 1)
        c_terms == lognormal_weights(params, x)
    IN  Returned(Terms(data_, nonzero_samples,
                       nonzero_samples \o nonzero_samples \o x \o <<np_sum(c_terms)>>,
                       c_terms))

\* Normal.log_likelihood, kernel branch
normal_log_likelihood(params, data_, nonzero_only) ==
    LET _samples == IF nonzero_only THEN where_positive(data_) ELSE data_
        x == np_arange(0, DEFAULT_PDF_MAX + 1)
        c_terms == normal_weights(params, x)
    IN  Returned(Terms(_samples, _samples, <<np_sum(c_terms)>>, c_terms))

\* Weibull.log_likelihood, kernel branch
weibull_log_likelihood(params, data_) ==
    LET nonzero_samples == where_positive(data_)
        x == np_arange(1, DEFAULT_PDF_MAX + 1)
        c_terms == weibull_weights(params, x)
    IN  Returned(Terms(data_, data_, nonzero_samples \o <<np_sum(c_terms)>>, c_terms))

\* ShiftedPowerLaw.log_likelihood, kernel branch
shifted_power_law_log_likelihood(params, data_, nonzero_only) ==
    LET _samples == IF nonzero_only THEN where_positive(data_) ELSE data_
        c == zeta(params[1], params[2])
    IN  Returned(Terms(_samples, _samples,
                       [i \in 1..Len(_samples) |-> _samples[i] + params[2]] \o <<c>>,
                       <<>>))

\* TruncatedPowerLaw.log_likelihood, kernel branch (its flag is unused)
truncated_power_law_log_likelihood(params, data_, nonzero) ==
    LET nonzero_samples == where_positive(data_)
        c == polylog(params[1], mp_exp(-fx_div(One, params[2])))
    IN  Returned(Terms(data_, data_, nonzero_samples \o <<c>>, <<>>))

\* <Variant>.log_likelihood(params, data, nonzero_only)
variant_log_likelihood(cls, params, data_, nonzero_only) ==
    LET via == log_likelihood_branch(cls, params)
    IN  IF via.kind = "delta" THEN delta_log_likelihood(<<via.loc>>, data_)
        ELSE IF via.kind = "uniform" THEN uniform_log_likelihood(<<>>, data_)
        ELSE CASE cls = "Poisson" -> poisson_log_likelihood(params, data_, nonzero_only)
               [] cls = "Exponential" ->
                    exponential_log_likelihood(params, data_, nonzero_only)
               [] cls = "Lognormal" -> lognormal_log_likelihood(params, data_, nonzero_only)
               [] cls = "Normal" -> normal_log_likelihood(params, data_, nonzero_only)
               [] cls = "Weibull" -> weibull_log_likelihood(params, data_)
               [] cls = "ShiftedPowerLaw" ->
                    shifted_power_law_log_likelihood(params, data_, nonzero_only)
               [] cls = "TruncatedPowerLaw" ->
                    truncated_power_law_log_likelihood(params, data_, nonzero_only)

---------------------------------------------------------------------------
(* distributions/distribution.py: the registry                             *)

DISTRIBUTION_POISSON == "poisson"
DISTRIBUTION_EXPONENTIAL == "exponential"
DISTRIBUTION_LOGNORMAL == "lognormal"
DISTRIBUTION_WEIBULL == "weibull"
DISTRIBUTION_SHIFTED_POWER_LAW == "shifted-power-law"
DISTRIBUTION_TRUNCATED_POWER_LAW == "truncated-power-law"

DISTRIBUTIONS == <<
    DISTRIBUTION_POISSON,
    DISTRIBUTION_EXPONENTIAL,
    DISTRIBUTION_SHIFTED_POWER_LAW,
    DISTRIBUTION_TRUNCATED_POWER_LAW,
    DISTRIBUTION_LOGNORMAL,
    DISTRIBUTION_WEIBULL >>

\* dist.get(): the list of registered variants, in the order the loops scan.
get == DISTRIBUTIONS

\* Whether the dispatcher log_likelihood hands nonzero_only on to the variant.
passes_nonzero_only(distribution) ==
    distribution \in {DISTRIBUTION_EXPONENTIAL, DISTRIBUTION_SHIFTED_POWER_LAW}

---------------------------------------------------------------------------
(* distributions/distribution.py: the dispatchers                          *)

\* A call that fell off the end of its if-chain: Python returns None.
ReturnedNone == [called |-> TRUE, raised |-> FALSE, value |-> <<>>, none |-> TRUE]

\* The outcomes of a sampling call: one per sample it may draw; the call
\* raises when there is nothing to draw from.
drawn(S) == IF S = {} THEN {Raised} ELSE {Returned(s) : s \in S}

\* <variant>.get_params(params): the names and the values it formats;
\* indexing a missing parameter raises IndexError.
variant_get_params(names, params) ==
    IF Len(params) < Len(names) THEN Raised
    ELSE Returned([names |-> names, values |-> SubSeq(params, 1, Len(names))])

\* pmf(distribution, params, domain)
dist_pmf(distribution, params, domain) ==
    CASE distribution = DISTRIBUTION_POISSON ->
            Returned(variant_pmf("Poisson", params, domain))
      [] distribution = DISTRIBUTION_EXPONENTIAL ->
            Returned(variant_pmf("Exponential", params, domain))
      [] distribution = DISTRIBUTION_LOGNORMAL ->
            Returned(variant_pmf("Lognormal", params, domain))
      [] distribution = DISTRIBUTION_WEIBULL ->
            Returned(variant_pmf("Weibull", params, domain))
      [] distribution = DISTRIBUTION_TRUNCATED_POWER_LAW ->
            Returned(variant_pmf("TruncatedPowerLaw", params, domain))
      [] distribution = DISTRIBUTION_SHIFTED_POWER_LAW ->
            Returned(variant_pmf("ShiftedPowerLaw", params, domain))
      [] OTHER -> ReturnedNone

\* cdf(distribution, params, domain): np.cumsum of the pmf.  What np.cumsum
\* makes of None depends on the numpy at hand: an object array, or an error.
dist_cdf(distribution, params, domain) ==
    LET _pmf == dist_pmf(distribution, params, domain)
    IN  IF "none" \in DOMAIN _pmf THEN {ReturnedNone, Raised}
        ELSE {Returned(cumsum(_pmf.value))}

\* sample(distribution, params, size)
dist_sample(distribution, params, size) ==
    CASE distribution = DISTRIBUTION_POISSON ->
            drawn(variant_samples("Poisson", params, size, DEFAULT_SAMPLE_MAX))
      [] distribution = DISTRIBUTION_EXPONENTIAL ->
            drawn(variant_samples("Exponential", params, size, DEFAULT_SAMPLE_MAX))
      [] distribution = DISTRIBUTION_LOGNORMAL ->
            drawn(variant_samples("Lognormal", params, size, DEFAULT_SAMPLE_MAX))
      [] distribution = DISTRIBUTION_WEIBULL ->
            drawn(variant_samples("Weibull", params, size, DEFAULT_SAMPLE_MAX))
      [] distribution = DISTRIBUTION_TRUNCATED_POWER_LAW ->
            drawn(variant_samples("TruncatedPowerLaw", params, size, DEFAULT_SAMPLE_MAX))
      [] distribution = DISTRIBUTION_SHIFTED_POWER_LAW ->
            drawn(variant_samples("ShiftedPowerLaw", params, size, DEFAULT_SAMPLE_MAX))
      [] OTHER -> {ReturnedNone}

\* <variant>.log_likelihood as the dispatcher calls it: the branch taken,
\* the nonzero_only handed on, and what the variant evaluates.
dispatched(cls, params, data_, nonzero_only) ==
    LET res == variant_log_likelihood(cls, params, data_, nonzero_only)
    IN  IF res.raised THEN Raised
        ELSE Returned([via |-> log_likelihood_branch(cls, params),
                       nonzero_only |-> nonzero_only,
                       terms |-> res.value])

\* log_likelihood(distribution, params, data, nonzero_only)
dist_log_likelihood(distribution, params, data_, nonzero_only) ==
    CASE distribution = DISTRIBUTION_POISSON ->
            dispatched("Poisson", params, data_, FALSE)
      [] distribution = DISTRIBUTION_EXPONENTIAL ->
            dispatched("Exponential", params, data_, nonzero_only)
      [] distribution = DISTRIBUTION_LOGNORMAL ->
            dispatched("Lognormal", params, data_, FALSE)
      [] distribution = DISTRIBUTION_WEIBULL ->
            dispatched("Weibull", params, data_, FALSE)
      [] distribution = DISTRIBUTION_TRUNCATED_POWER_LAW ->
            dispatched("TruncatedPowerLaw", params, data_, FALSE)
      [] distribution = DISTRIBUTION_SHIFTED_POWER_LAW ->
            dispatched("ShiftedPowerLaw", params, data_, nonzero_only)
      [] OTHER -> ReturnedNone

\* get_params(params, distribution)
dist_get_params(params, distribution) ==
    CASE distribution = DISTRIBUTION_POISSON ->
            variant_get_params(<<"lambda">>, params)
      [] distribution = DISTRIBUTION_EXPONENTIAL ->
            variant_get_params(<<"beta">>, params)
      [] distribution = DISTRIBUTION_LOGNORMAL ->
            variant_get_params(<<"mu", "sigma">>, params)
      [] distribution = DISTRIBUTION_WEIBULL ->
            variant_get_params(<<"k", "lambda">>, params)
      [] distribution = DISTRIBUTION_TRUNCATED_POWER_LAW ->
            variant_get_params(<<"gamma", "kappa">>, params)
      [] distribution = DISTRIBUTION_SHIFTED_POWER_LAW ->
            variant_get_params(<<"gamma", "x0">>, params)
      [] OTHER -> ReturnedNone

---------------------------------------------------------------------------
(* calculation/fit.py                                                      *)

INITIAL_FITTING_PARAMS ==
    [d \in {get[i] : i \in 1..Len(get)} |->
        CASE d = DISTRIBUTION_POISSON -> <<10000>>
          [] d = DISTRIBUTION_EXPONENTIAL -> <<10000>>
          [] d = DISTRIBUTION_LOGNORMAL -> <<1000, 500>>
          [] d = DISTRIBUTION_WEIBULL -> <<3200, 800>>
          [] d = DISTRIBUTION_TRUNCATED_POWER_LAW -> <<1200, 50000>>
          [] d = DISTRIBUTION_SHIFTED_POWER_LAW -> <<1200, 1000>>]

\* Log-likelihoods a variant may have on the sample.
LLValues == {-100000, -99500, -99000}

\* K-S statistics a fit or a synthetic sample may have.
DValues == {500, 1000}

\* The point a search from x0 ends in: a point of the shape of x0.
optimum(x0) == IF Len(x0) = 1 THEN <<1000>> ELSE <<2000, 1000>>

\* scipy.optimize.minimize(nll, x0, method='nelder-mead') is opaque: the
\* optima a search from x0 may end in, each a point of the shape of x0, the
\* objective there and the K-S statistic of the model at that point.
mle_optima(x0) ==
    { [x |-> optimum(x0), fun |-> 100000, D |-> 1000],
      [x |-> optimum(x0), fun |-> 99500, D |-> 500],
      [x |-> optimum(x0), fun |-> 99000, D |-> 200] }

\* The same for the K-S objective, with the log-likelihood at the point.
ks_optima(x0) ==
    { [x |-> optimum(x0), fun |-> 1000, log_likelihood |-> -100000],
      [x |-> optimum(x0), fun |-> 500, log_likelihood |-> -99000] }

\* fit_mle: the outcomes of the call.  The seed lookup raises KeyError on a
\* tag without a seed; get_sample_cdf raises on an empty sample; an
\* exception of the objective (the mpmath functions raise on arguments they
\* cannot evaluate) leaves minimize and the call.
fit_mle(distribution, data_) ==
    IF distribution \notin DOMAIN seeds THEN {Raised}
    ELSE LET params == seeds[distribution]
         IN  IF get_sample_cdf(data_).raised THEN {Raised}
             ELSE {Returned([params |-> res.x, log_likelihood |-> -res.fun, D |-> res.D]) :
                      res \in mle_optima(params)} \cup {Raised}

\* fit_ks with a domain that does not depend on the sample.
fit_ks_fixed_domain(distribution, data_) ==
    IF distribution \notin DOMAIN seeds THEN {Raised}
    ELSE {Returned([params |-> res.x, log_likelihood |-> res.log_likelihood,
                    D |-> res.fun]) : res \in ks_optima(seeds[distribution])}

\* fit_ks: the outcomes of the call.  max(data) raises on an empty sample.
fit_ks(distribution, data_) ==
    IF distribution \notin DOMAIN seeds THEN {Raised}
    ELSE LET params == seeds[distribution]
         IN  IF Len(data_) = 0 THEN {Raised}
             ELSE {Returned([params |-> res.x, log_likelihood |-> res.log_likelihood,
                             D |-> res.fun]) : res \in ks_optima(params)} \cup {Raised}

\* A search that moves the list it was started from to the point it ends in.
minimize_x0_in_place(x0, x) == x

\* The list minimize was started from, after the search that ended in x:
\* the search works on an array of its own.
minimize_x0(x0, x) == x0

\* INITIAL_FITTING_PARAMS after a fit of the variant that returned res.
seeds_after(distribution, res) ==
    IF distribution \notin DOMAIN seeds \/ res.raised THEN seeds
    ELSE [seeds EXCEPT ![distribution] =
              minimize_x0(seeds[distribution], res.value.params)]

\* The fits made, after one more: a fit that found its seed is on record
\* with the point it started from.
fit_calls_after(kind, distribution, data_, res) ==
    IF distribution \notin DOMAIN seeds THEN fit_calls
    ELSE Append(fit_calls, [kind |-> kind, distribution |-> distribution,
                            x0 |-> seeds[distribution], data |-> data_,
                            result |-> res])

\* dist.log_likelihood(d, params, data, nonzero_only=True) at a fitted
\* optimum: the variants the flag does not reach return the optimum's value.
log_likelihood_nonzero_only(distribution, fit_result) ==
    IF passes_nonzero_only(distribution) THEN LLValues
    ELSE {fit_result.log_likelihood}

---------------------------------------------------------------------------
(* Python dict helpers                                                     *)

EmptyDict == [k \in {} |-> 0]

Keys(dict) == DOMAIN dict

\* min(dict.values())
min_values(dict) ==
    CHOOSE m \in {dict[k] : k \in Keys(dict)} : \A k \in Keys(dict) : m <= dict[k]

\* sum(dict.values()): the values of the first n registered keys.
RECURSIVE sum_first(_, _)
sum_first(dict, n) ==
    IF n = 0 THEN 0
    ELSE sum_first(dict, n - 1) + (IF get[n] \in Keys(dict) THEN dict[get[n]] ELSE 0)

sum_values(dict) == sum_first(dict, Len(get))

---------------------------------------------------------------------------
(* calculation/model_selection.py and tests.py: scoring                    *)

\* The criterion of the run's method for one fitted variant.
criterion(m, log_likelihood, params, data_) ==
    IF m \in {"aic", "test_aic"}
    THEN aic_measure(log_likelihood, Len(params))
    ELSE bic_measure(log_likelihood, Len(params), Len(data_))

\* daic / dbic taken from the largest criterion value.
deltas_from_max(values) ==
    LET top == CHOOSE m \in {values[k] : k \in Keys(values)} :
                   \A k \in Keys(values) : values[k] <= m
    IN  [k \in Keys(values) |-> top - values[k]]

\* daic / dbic / delta_aic / delta_bic
deltas(values) == [k \in Keys(values) |-> values[k] - min_values(values)]

\* weights before normalisation: exp(-delta/2)
raw_weights(delta) == [k \in Keys(delta) |-> exp(-(delta[k] \div 2))]

\* tests.py: "if weights[d] > weights[best_model]"
better_weight(w, d, best) == w[d] > w[best]

\* The K-S trial counting a synthetic D equal to the fitted one.
exceeds_or_equal(synthetic_ksd, D) == synthetic_ksd >= D

\* "if ksd > fit_results[d]['D']"
exceeds(synthetic_ksd, D) == synthetic_ksd > D

\* tests.py: the K-S scan with <= in place of <.
better_ksd_or_equal(D, best) == D <= best

\* tests.py: "if fit_results[d]['D'] < best_ksd"
better_ksd(D, best) == D < best

---------------------------------------------------------------------------
(* Inputs of the measures                                                  *)

MaxCdfLen == 3

CdfValues == {0, 300, 700, 1000}

RECURSIVE SeqsUpTo(_, _)
SeqsUpTo(S, n) ==
    IF n = 0 THEN {<<>>}
    ELSE LET shorter == SeqsUpTo(S, n - 1)
         IN  shorter \cup {Append(s, x) : s \in {t \in shorter : Len(t) = n - 1}, x \in S}

Scenario3A == <<200, 400, 600, 800, 1000>>
Scenario3B == <<300, 700, 1000>>

CdfPairs ==
    (SeqsUpTo(CdfValues, MaxCdfLen) \X SeqsUpTo(CdfValues, MaxCdfLen))
        \cup {<<Scenario3A, Scenario3B>>, <<Scenario3B, Scenario3A>>}

\* No selection run is under way.
RunIdle ==
    /\ method = "none"
    /\ data = <<>>
    /\ pc = "done"
    /\ d_idx = 1
    /\ fit_results = EmptyDict
    /\ ic = EmptyDict
    /\ dic = EmptyDict
    /\ weights = EmptyDict
    /\ weights_total = 0
    /\ best_model = ""
    /\ best_ksd = 0
    /\ r = 0
    /\ p = 0
    /\ printed = EmptyDict
    /\ output = FALSE
    /\ synthetic = <<>>
    /\ dtype = "float64"
    /\ table = NotCalled

KsInit ==
    /\ \E pair \in CdfPairs : data_cdf_ = pair[1] /\ model_cdf_ = pair[2]
    /\ ksd = NotCalled

KsIdle ==
    /\ data_cdf_ = <<>>
    /\ model_cdf_ = <<>>
    /\ ksd = NotCalled

KsStatistics ==
    /\ ~ksd.called
    /\ ksd' = ks_statistics(data_cdf_, model_cdf_)
    /\ UNCHANGED <<data_cdf_, model_cdf_>>
    /\ UNCHANGED notKsVars

SampleIdle ==
    /\ samples = <<>>
    /\ sample_pmf = NotCalled
    /\ sample_cdf = NotCalled

\* fit.py as imported: the seed table as written, no fit made.
FitImported ==
    /\ seeds = INITIAL_FITTING_PARAMS
    /\ fit_calls = <<>>

\* No sequence of fits under way.
FitsIdle ==
    /\ nelder_mead = {}
    /\ f_data = <<>>

\* No entry point of a variant class has been called.
VariantIdle ==
    /\ v_cls = "none"
    /\ v_params = <<>>
    /\ v_domain = 0
    /\ v_size = 0
    /\ v_pmf = NotCalled
    /\ v_samples = NotCalled
    /\ v_ll = NotCalled

\* No dispatcher or fit has been called on its own.
CallIdle ==
    /\ q_entry = "none"
    /\ q_distribution = "none"
    /\ q_params = <<>>
    /\ q_data = <<>>
    /\ q_nonzero_only = FALSE
    /\ q_result = NotCalled

InitKs == KsInit /\ SampleIdle /\ RunIdle /\ VariantIdle /\ CallIdle /\ FitImported /\ FitsIdle

NextKs == KsStatistics

SpecKs == InitKs /\ [][NextKs]_vars

---------------------------------------------------------------------------
(* Samples handed to the empirical utilities                               *)

MaxSampleLen == 3

MaxSampleVal == 2

\* Observations 0, 0.5, 1, ... up to MaxSampleVal + 0.5.
SampleValues == {500 * h : h \in 0..(2 * MaxSampleVal + 1)}

SampleInit ==
    /\ samples \in SeqsUpTo(SampleValues, MaxSampleLen)
    /\ sample_pmf = NotCalled
    /\ sample_cdf = NotCalled

GetSamplePmf ==
    /\ ~sample_pmf.called
    /\ sample_pmf' = get_sample_pmf(samples)
    /\ UNCHANGED <<samples, sample_cdf>>
    /\ UNCHANGED notSampleVars

GetSampleCdf ==
    /\ ~sample_cdf.called
    /\ sample_cdf' = get_sample_cdf(samples)
    /\ UNCHANGED <<samples, sample_pmf>>
    /\ UNCHANGED notSampleVars

InitSample == SampleInit /\ KsIdle /\ RunIdle /\ VariantIdle /\ CallIdle /\ FitImported /\ FitsIdle

NextSample == GetSamplePmf \/ GetSampleCdf

SpecSample == InitSample /\ [][NextSample]_vars

---------------------------------------------------------------------------
(* The entry points of the variant classes, called on their own            *)

MaxDomain == 2

MaxSize == 2

Classes == {"Poisson", "Exponential", "Lognormal", "Normal", "Weibull",
            "ShiftedPowerLaw", "TruncatedPowerLaw"}

\* The parameter vectors a class is handed: values below EPSILON (zero and
\* negative) and above it.  The Hurwitz zeta function has poles at a shift
\* of zero, so an exponent above EPSILON comes with a positive shift.
ParamVectors(cls) ==
    CASE cls \in {"Poisson", "Exponential"} ->
            {<<a>> : a \in {-1000, 0, 1000, 2000}}
      [] cls = "Lognormal" ->
            {<<mu, sigma>> : mu \in {-1000, 0, 1000, 2000}, sigma \in {-1000, 0, 1000}}
      [] cls = "Normal" ->
            {<<mu, sigma>> : mu \in {-1000, 0, 1000, 2000}, sigma \in {0, 1000}}
      [] cls = "Weibull" ->
            {<<k, lambda>> : k \in {0, 1000, 2000}, lambda \in {0, 1000, 2000}}
      [] cls = "ShiftedPowerLaw" ->
            {<<gamma, x0>> : gamma \in {-1000, 0}, x0 \in {0, 1000, 2000}}
                \cup {<<gamma, x0>> : gamma \in {500, 2000}, x0 \in {1000, 2000}}
      [] cls = "TruncatedPowerLaw" ->
            {<<gamma, kappa>> : gamma \in {-1000, 0, 1000, 2000},
                                kappa \in {0, 100, 1000, 2000}}

\* The samples log_likelihood is handed: not empty, non-negative integers,
\* with and without zeros.
VariantData == {<<0>>, <<0, 1000>>, <<1000, 2000>>}

VariantInit ==
    /\ v_cls \in Classes
    /\ v_params \in ParamVectors(v_cls)
    /\ v_domain \in 0..MaxDomain
    /\ v_size \in 0..MaxSize
    /\ v_pmf = NotCalled
    /\ v_samples = NotCalled
    /\ v_ll = NotCalled

\* <v_cls>.pmf(v_params, v_domain)
VariantPmf ==
    /\ ~v_pmf.called
    /\ v_pmf' = Returned([via |-> pmf_branch(v_cls, v_params),
                          value |-> variant_pmf(v_cls, v_params, v_domain)])
    /\ UNCHANGED <<v_cls, v_params, v_domain, v_size, v_samples, v_ll>>
    /\ UNCHANGED notVariantVars

\* <v_cls>.samples(v_params, v_size, v_domain)
VariantSamples ==
    /\ ~v_samples.called
    /\ \E res \in drawn(variant_samples(v_cls, v_params, v_size, v_domain)) :
          v_samples' = (IF res.raised THEN Raised
                        ELSE Returned([via |-> samples_branch(v_cls, v_params),
                                       value |-> res.value]))
    /\ UNCHANGED <<v_cls, v_params, v_domain, v_size, v_pmf, v_ll>>
    /\ UNCHANGED notVariantVars

\* <v_cls>.log_likelihood(v_params, data, nonzero_only)
VariantLogLikelihood ==
    /\ ~v_ll.called
    /\ \E data_ \in VariantData, nonzero_only \in BOOLEAN :
          LET res == variant_log_likelihood(v_cls, v_params, data_, nonzero_only)
          IN  v_ll' = (IF res.raised THEN Raised
                       ELSE Returned([via |-> log_likelihood_branch(v_cls, v_params),
                                      data |-> data_,
                                      nonzero_only |-> nonzero_only,
                                      terms |-> res.value]))
    /\ UNCHANGED <<v_cls, v_params, v_domain, v_size, v_pmf, v_samples>>
    /\ UNCHANGED notVariantVars

InitVariant == VariantInit /\ KsIdle /\ SampleIdle /\ RunIdle /\ CallIdle /\ FitImported /\ FitsIdle

NextVariantCall == VariantPmf \/ VariantSamples \/ VariantLogLikelihood

SpecVariant == InitVariant /\ [][NextVariantCall]_vars

---------------------------------------------------------------------------
(* The dispatchers and the fits, called on their own                       *)

\* The tags a caller may name: the registered ones and two that are not.
Tags == {get[i] : i \in 1..Len(get)} \cup {"normal", "zipf"}

\* The parameter vectors handed over with a tag.
CallParams(distribution) ==
    IF distribution \in DOMAIN INITIAL_FITTING_PARAMS
    THEN {optimum(INITIAL_FITTING_PARAMS[distribution])}
    ELSE {<<1000>>, <<2000, 1000>>}

\* The samples handed over: the empty one, all zeros, and others.
CallSamples == {<<>>, <<0>>, <<0, 0>>, <<0, 1000>>, <<1000, 2000>>}

CallInit ==
    /\ q_entry = "none"
    /\ q_distribution \in Tags
    /\ q_params \in CallParams(q_distribution)
    /\ q_data \in CallSamples
    /\ q_nonzero_only \in BOOLEAN
    /\ q_result = NotCalled

CallPmf ==
    /\ q_entry = "none"
    /\ q_entry' = "pmf"
    /\ q_result' = dist_pmf(q_distribution, q_params, DEFAULT_PDF_MAX)
    /\ UNCHANGED <<q_distribution, q_params, q_data, q_nonzero_only>>
    /\ UNCHANGED notCallVars

CallCdf ==
    /\ q_entry = "none"
    /\ q_entry' = "cdf"
    /\ q_result' \in dist_cdf(q_distribution, q_params, DEFAULT_PDF_MAX)
    /\ UNCHANGED <<q_distribution, q_params, q_data, q_nonzero_only>>
    /\ UNCHANGED notCallVars

CallSample ==
    /\ q_entry = "none"
    /\ q_entry' = "sample"
    /\ q_result' \in dist_sample(q_distribution, q_params, DEFAULT_SAMPLE_SIZE)
    /\ UNCHANGED <<q_distribution, q_params, q_data, q_nonzero_only>>
    /\ UNCHANGED notCallVars

CallLogLikelihood ==
    /\ q_entry = "none"
    /\ q_entry' = "log_likelihood"
    /\ q_result' = dist_log_likelihood(q_distribution, q_params, q_data, q_nonzero_only)
    /\ UNCHANGED <<q_distribution, q_params, q_data, q_nonzero_only>>
    /\ UNCHANGED notCallVars

CallGetParams ==
    /\ q_entry = "none"
    /\ q_entry' = "get_params"
    /\ q_result' = dist_get_params(q_params, q_distribution)
    /\ UNCHANGED <<q_distribution, q_params, q_data, q_nonzero_only>>
    /\ UNCHANGED notCallVars

CallFitMle ==
    /\ q_entry = "none"
    /\ q_entry' = "fit_mle"
    /\ q_result' \in fit_mle(q_distribution, q_data)
    /\ seeds' = seeds_after(q_distribution, q_result')
    /\ fit_calls' = fit_calls_after("mle", q_distribution, q_data, q_result')
    /\ UNCHANGED <<q_distribution, q_params, q_data, q_nonzero_only>>
    /\ UNCHANGED notCallFitVars

CallFitKs ==
    /\ q_entry = "none"
    /\ q_entry' = "fit_ks"
    /\ q_result' \in fit_ks(q_distribution, q_data)
    /\ seeds' = seeds_after(q_distribution, q_result')
    /\ fit_calls' = fit_calls_after("ks", q_distribution, q_data, q_result')
    /\ UNCHANGED <<q_distribution, q_params, q_data, q_nonzero_only>>
    /\ UNCHANGED notCallFitVars

InitCall == CallInit /\ KsIdle /\ SampleIdle /\ RunIdle /\ VariantIdle /\ FitImported /\ FitsIdle

NextCall ==
    \/ CallPmf
    \/ CallCdf
    \/ CallSample
    \/ CallLogLikelihood
    \/ CallGetParams
    \/ CallFitMle
    \/ CallFitKs

SpecCall == InitCall /\ [][NextCall]_vars

---------------------------------------------------------------------------
(* Fits made one after another in one process, as tests.py makes them      *)

\* Fits made in one process.
MaxFits == 3

\* The samples the fits are made on.
FitSamples == {<<>>, <<0, 1000>>, <<1000, 2000>>}

\* The variants fitted: two one-parameter variants with the same seed value
\* and a two-parameter variant.
FitTags == {DISTRIBUTION_POISSON, DISTRIBUTION_EXPONENTIAL, DISTRIBUTION_LOGNORMAL}

FitsInit ==
    /\ f_data \in FitSamples
    /\ nelder_mead = {}

\* The process goes on: fits are left to make and none has raised.
FitsGoOn ==
    /\ Len(fit_calls) < MaxFits
    /\ IF fit_calls = <<>> THEN TRUE ELSE ~fit_calls[Len(fit_calls)].result.raised

\* A search is a function of its objective and its start point: one made
\* before ends as it ended then.
searched(kind, distribution, res) ==
    LET key == <<kind, distribution, seeds[distribution], f_data>>
    IN  /\ \A done \in nelder_mead : done.key = key => res = done.res
        /\ nelder_mead' = nelder_mead \cup {[key |-> key, res |-> res]}

\* fit.fit_mle(d, f_data)
FitsMle ==
    /\ FitsGoOn
    /\ \E d \in FitTags :
          \E res \in fit_mle(d, f_data) :
              /\ searched("mle", d, res)
              /\ seeds' = seeds_after(d, res)
              /\ fit_calls' = fit_calls_after("mle", d, f_data, res)
    /\ UNCHANGED f_data
    /\ UNCHANGED <<ksVars, sampleVars, runVars, variantVars, callVars>>

\* fit.fit_ks(d, f_data)
FitsKs ==
    /\ FitsGoOn
    /\ \E d \in FitTags :
          \E res \in fit_ks(d, f_data) :
              /\ searched("ks", d, res)
              /\ seeds' = seeds_after(d, res)
              /\ fit_calls' = fit_calls_after("ks", d, f_data, res)
    /\ UNCHANGED f_data
    /\ UNCHANGED <<ksVars, sampleVars, runVars, variantVars, callVars>>

InitFits ==
    FitsInit /\ FitImported /\ KsIdle /\ SampleIdle /\ RunIdle /\ VariantIdle /\ CallIdle

NextFits ==
    \/ FitsMle
    \/ FitsKs

\* test_fit_mle / test_fit_ks and callers like them
SpecFits == InitFits /\ [][NextFits]_vars

---------------------------------------------------------------------------
(* Selection runs: calculation/model_selection.py and tests.py             *)

MaxDataLen == 2

\* Bootstrap trials per variant (100 in the source).
synthetic_samples_num == 2

\* The samples a run is given: one of each length, the empty one and
\* zeros included.
RunSamples == {[j \in 1..n |-> Fx(j - 1)] : n \in 0..MaxDataLen}

\* The run starts: nothing fitted yet.  test_ks_ms sets best_ksd and
\* best_model before its loop.
RunInit(methods) ==
    /\ method \in methods
    /\ data \in RunSamples
    /\ pc = "fit"
    /\ d_idx = 1
    /\ fit_results = EmptyDict
    /\ ic = EmptyDict
    /\ dic = EmptyDict
    /\ weights = EmptyDict
    /\ weights_total = 0
    /\ best_model = (IF method = "test_ks" THEN get[1] ELSE "")
    /\ best_ksd = (IF method = "test_ks" THEN One ELSE 0)
    /\ r = 0
    /\ p = 0
    /\ printed = EmptyDict
    /\ output = FALSE
    /\ synthetic = <<>>
    /\ dtype \in {"int64", "float64"}
    /\ table = NotCalled

\* The loop staying on the same variant.
NextVariant_again(after) ==
    pc' = pc /\ d_idx' = d_idx

\* The loop leaving one variant early.
NextVariant_early(after) ==
    IF d_idx >= Len(get) - 1
    THEN pc' = after /\ d_idx' = 1
    ELSE pc' = pc /\ d_idx' = d_idx + 1

\* The loop over dist.get() moves on; after the last variant the run is at `after`.
NextVariant(after) ==
    IF d_idx = Len(get)
    THEN pc' = after /\ d_idx' = 1
    ELSE pc' = pc /\ d_idx' = d_idx + 1

\* perform_aic_test / perform_bic_test: one pass of the fitting loop.
PerformFitMle ==
    /\ method \in {"aic", "bic"}
    /\ pc = "fit"
    /\ \E res \in fit_mle(get[d_idx], data) :
          /\ seeds' = seeds_after(get[d_idx], res)
          /\ fit_calls' = fit_calls_after("mle", get[d_idx], data, res)
          /\ IF res.raised
             THEN pc' = "aborted" /\ UNCHANGED <<d_idx, fit_results>>
             ELSE /\ fit_results' = (get[d_idx] :> res.value) @@ fit_results
                  /\ NextVariant("score")
    /\ UNCHANGED <<method, data, ic, dic, weights, weights_total,
                   best_model, best_ksd, r, p, printed, output>>
    /\ UNCHANGED synthetic
    /\ UNCHANGED <<dtype, table>>
    /\ UNCHANGED notRunFitVars

\* perform_aic_test / perform_bic_test: the criterion, its differences, the
\* raw weights and their total.
PerformScore ==
    /\ method \in {"aic", "bic"}
    /\ pc = "score"
    /\ LET values == [d \in Keys(fit_results) |->
                         criterion(method, fit_results[d].log_likelihood,
                                   fit_results[d].params, data)]
       IN  /\ ic' = values
           /\ dic' = deltas(ic')
           /\ weights' = raw_weights(dic')
           /\ weights_total' = sum_values(weights')
    /\ pc' = "report"
    /\ UNCHANGED <<method, data, d_idx, fit_results, best_model, best_ksd,
                   r, p, printed, output>>
    /\ UNCHANGED synthetic
    /\ UNCHANGED <<dtype, table>>
    /\ UNCHANGED notRunVars

\* perform_aic_test / perform_bic_test: one pass of the reporting loop.
PerformReport ==
    /\ method \in {"aic", "bic"}
    /\ pc = "report"
    /\ LET d == get[d_idx]
           w == fx_div(weights[d], weights_total)
       IN  /\ weights' = [weights EXCEPT ![d] = w]
           /\ printed' = (d :> [value |-> ic[d], delta |-> dic[d], w |-> w]) @@ printed
    /\ NextVariant("print_pmfs")
    /\ UNCHANGED <<method, data, fit_results, ic, dic, weights_total,
                   best_model, best_ksd, r, p, output>>
    /\ UNCHANGED synthetic
    /\ UNCHANGED <<dtype, table>>
    /\ UNCHANGED notRunVars

\* perform_ks_test: a variant is fitted and its D printed.
PerformFitKs ==
    /\ method = "ks"
    /\ pc = "fit"
    /\ \E res \in fit_ks(get[d_idx], data) :
          /\ seeds' = seeds_after(get[d_idx], res)
          /\ fit_calls' = fit_calls_after("ks", get[d_idx], data, res)
          /\ IF res.raised
             THEN pc' = "aborted" /\ UNCHANGED <<fit_results, p, r, synthetic>>
             ELSE /\ fit_results' = (get[d_idx] :> res.value) @@ fit_results
                  /\ p' = 0
                  /\ r' = 0
                  /\ synthetic' = <<>>
                  /\ pc' = "bootstrap"
    /\ UNCHANGED <<method, data, d_idx, ic, dic, weights, weights_total,
                   best_model, best_ksd, printed, output>>
    /\ UNCHANGED <<dtype, table>>
    /\ UNCHANGED notRunFitVars

\* The trials of a variant ending at the first synthetic D above the fitted one.
PerformKsTrial_adaptive ==
    /\ method = "ks"
    /\ pc = "bootstrap"
    /\ r < synthetic_samples_num
    /\ \E synthetic_sample \in
              dist_sample(get[d_idx], fit_results[get[d_idx]].params, Len(data)) :
          IF synthetic_sample.raised
          THEN pc' = "aborted" /\ UNCHANGED <<p, r, synthetic>>
          ELSE \E synthetic_ksd \in DValues :
                  /\ p' = (IF exceeds(synthetic_ksd, fit_results[get[d_idx]].D)
                           THEN p + 1 ELSE p)
                  /\ r' = (IF exceeds(synthetic_ksd, fit_results[get[d_idx]].D)
                           THEN synthetic_samples_num ELSE r + 1)
                  /\ synthetic' = Append(synthetic,
                                         [size |-> Len(synthetic_sample.value),
                                          ksd |-> synthetic_ksd])
                  /\ pc' = pc
    /\ UNCHANGED <<method, data, d_idx, fit_results, ic, dic, weights,
                   weights_total, best_model, best_ksd, printed, output>>
    /\ UNCHANGED <<dtype, table>>
    /\ UNCHANGED notRunVars

\* perform_ks_test: one synthetic sample is drawn and its D compared.
PerformKsTrial ==
    /\ method = "ks"
    /\ pc = "bootstrap"
    /\ r < synthetic_samples_num
    /\ \E synthetic_sample \in
              dist_sample(get[d_idx], fit_results[get[d_idx]].params, Len(data)) :
          IF synthetic_sample.raised
          THEN pc' = "aborted" /\ UNCHANGED <<p, r, synthetic>>
          ELSE \E synthetic_ksd \in DValues :
                  /\ p' = (IF exceeds(synthetic_ksd, fit_results[get[d_idx]].D)
                           THEN p + 1 ELSE p)
                  /\ r' = r + 1
                  /\ synthetic' = Append(synthetic,
                                         [size |-> Len(synthetic_sample.value),
                                          ksd |-> synthetic_ksd])
                  /\ pc' = pc
    /\ UNCHANGED <<method, data, d_idx, fit_results, ic, dic, weights,
                   weights_total, best_model, best_ksd, printed, output>>
    /\ UNCHANGED <<dtype, table>>
    /\ UNCHANGED notRunVars

\* perform_ks_test: the p-value of the variant is printed.
PerformKsPrintP ==
    /\ method = "ks"
    /\ pc = "bootstrap"
    /\ r = synthetic_samples_num
    /\ printed' = (get[d_idx] :> [D |-> fit_results[get[d_idx]].D,
                                  p |-> fx_div(Fx(p), Fx(synthetic_samples_num))])
                      @@ printed
    /\ IF d_idx = Len(get)
       THEN pc' = "print_pmfs" /\ d_idx' = 1
       ELSE pc' = "fit" /\ d_idx' = d_idx + 1
    /\ UNCHANGED <<method, data, fit_results, ic, dic, weights, weights_total,
                   best_model, best_ksd, r, p, output>>
    /\ UNCHANGED synthetic
    /\ UNCHANGED <<dtype, table>>
    /\ UNCHANGED notRunVars

\* test_aic_ms / test_bic_ms: one pass of the fitting loop: the fit, then
\* the criterion from the log-likelihood taken again with nonzero_only=True.
TestFitMle ==
    /\ method \in {"test_aic", "test_bic"}
    /\ pc = "fit"
    /\ LET d == get[d_idx]
       IN  \E res \in fit_mle(d, data) :
             /\ seeds' = seeds_after(d, res)
             /\ fit_calls' = fit_calls_after("mle", d, data, res)
             /\ IF res.raised
                THEN pc' = "aborted" /\ UNCHANGED <<d_idx, fit_results, ic>>
                ELSE \E ll \in log_likelihood_nonzero_only(d, res.value) :
                        /\ fit_results' = (d :> res.value) @@ fit_results
                        /\ ic' = (d :> criterion(method, ll, res.value.params, data)) @@ ic
                        /\ NextVariant("score")
    /\ UNCHANGED <<method, data, dic, weights, weights_total,
                   best_model, best_ksd, r, p, printed, output>>
    /\ UNCHANGED synthetic
    /\ UNCHANGED <<dtype, table>>
    /\ UNCHANGED notRunFitVars

\* test_aic_ms / test_bic_ms: the differences, the raw weights and the
\* first candidate for the best model.
TestScore ==
    /\ method \in {"test_aic", "test_bic"}
    /\ pc = "score"
    /\ dic' = deltas(ic)
    /\ weights' = raw_weights(deltas(ic))
    /\ best_model' = get[1]
    /\ pc' = "report"
    /\ UNCHANGED <<method, data, d_idx, fit_results, ic, weights_total,
                   best_ksd, r, p, printed, output>>
    /\ UNCHANGED synthetic
    /\ UNCHANGED <<dtype, table>>
    /\ UNCHANGED notRunVars

\* test_aic_ms / test_bic_ms: one pass of the reporting loop: the best
\* model is compared, then the weight divided by the current sum.
TestReport ==
    /\ method \in {"test_aic", "test_bic"}
    /\ pc = "report"
    /\ LET d == get[d_idx]
           w == fx_div(weights[d], sum_values(weights))
       IN  /\ best_model' = (IF better_weight(weights, d, best_model)
                             THEN d ELSE best_model)
           /\ weights' = [weights EXCEPT ![d] = w]
           /\ printed' = (d :> [value |-> ic[d], delta |-> dic[d], w |-> w]) @@ printed
    /\ NextVariant("print_pmfs")
    /\ UNCHANGED <<method, data, fit_results, ic, dic, weights_total,
                   best_ksd, r, p, output>>
    /\ UNCHANGED synthetic
    /\ UNCHANGED <<dtype, table>>
    /\ UNCHANGED notRunVars

\* test_ks_ms: a variant is fitted, compared with the best D so far and
\* its D printed.
TestFitKs ==
    /\ method = "test_ks"
    /\ pc = "fit"
    /\ \E res \in fit_ks(get[d_idx], data) :
          /\ seeds' = seeds_after(get[d_idx], res)
          /\ fit_calls' = fit_calls_after("ks", get[d_idx], data, res)
          /\ IF res.raised
             THEN /\ pc' = "aborted"
                  /\ UNCHANGED <<fit_results, best_ksd, best_model, p, r, synthetic>>
             ELSE /\ fit_results' = (get[d_idx] :> res.value) @@ fit_results
                  /\ IF better_ksd(res.value.D, best_ksd)
                     THEN best_ksd' = res.value.D /\ best_model' = get[d_idx]
                     ELSE UNCHANGED <<best_ksd, best_model>>
                  /\ p' = 0
                  /\ r' = 0
                  /\ synthetic' = <<>>
                  /\ pc' = "bootstrap"
    /\ UNCHANGED <<method, data, d_idx, ic, dic, weights, weights_total,
                   printed, output>>
    /\ UNCHANGED <<dtype, table>>
    /\ UNCHANGED notRunFitVars

\* test_ks_ms: one synthetic sample is drawn and its D compared.
TestKsTrial ==
    /\ method = "test_ks"
    /\ pc = "bootstrap"
    /\ r < synthetic_samples_num
    /\ \E synthetic_sample \in
              dist_sample(get[d_idx], fit_results[get[d_idx]].params, Len(data)) :
          IF synthetic_sample.raised
          THEN pc' = "aborted" /\ UNCHANGED <<p, r, synthetic>>
          ELSE \E synthetic_ksd \in DValues :
                  /\ p' = (IF exceeds(synthetic_ksd, fit_results[get[d_idx]].D)
                           THEN p + 1 ELSE p)
                  /\ r' = r + 1
                  /\ synthetic' = Append(synthetic,
                                         [size |-> Len(synthetic_sample.value),
                                          ksd |-> synthetic_ksd])
                  /\ pc' = pc
    /\ UNCHANGED <<method, data, d_idx, fit_results, ic, dic, weights,
                   weights_total, best_model, best_ksd, printed, output>>
    /\ UNCHANGED <<dtype, table>>
    /\ UNCHANGED notRunVars

\* test_ks_ms: the p-value of the variant is printed.
TestKsPrintP ==
    /\ method = "test_ks"
    /\ pc = "bootstrap"
    /\ r = synthetic_samples_num
    /\ printed' = (get[d_idx] :> [D |-> fit_results[get[d_idx]].D,
                                  p |-> fx_div(Fx(p), Fx(synthetic_samples_num))])
                      @@ printed
    /\ IF d_idx = Len(get)
       THEN pc' = "best_model" /\ d_idx' = 1
       ELSE pc' = "fit" /\ d_idx' = d_idx + 1
    /\ UNCHANGED <<method, data, fit_results, ic, dic, weights, weights_total,
                   best_model, best_ksd, r, p, output>>
    /\ UNCHANGED synthetic
    /\ UNCHANGED <<dtype, table>>
    /\ UNCHANGED notRunVars

\* test_ks_ms: the designated model is printed; the run is over (test_ks_ms
\* writes no table).
TestKsBestModel ==
    /\ method = "test_ks"
    /\ pc = "best_model"
    /\ pc' = "done"
    /\ UNCHANGED <<method, data, d_idx, fit_results, ic, dic, weights,
                   weights_total, best_model, best_ksd, r, p, printed, output>>
    /\ UNCHANGED synthetic
    /\ UNCHANGED <<dtype, table>>
    /\ UNCHANGED notRunVars

\* print_pmfs(data, fit_results, output_name): the rows handed to print_csv.
\* np.max(data) of an array of floats is a float, which range() does not
\* take; a variant with no fit result is a KeyError; a pmf with no entry i
\* leaves the loop by an IndexError.
print_pmfs(dtype_, data_, fit_results_) ==
    IF np_max(data_).raised \/ dtype_ = "float64" THEN Raised
    ELSE IF \E k \in 1..Len(get) : get[k] \notin Keys(fit_results_) THEN Raised
    ELSE LET rows == int(np_max(data_).value) + 1
             pmfs == [d \in {get[k] : k \in 1..Len(get)} |->
                         dist_pmf(d, fit_results_[d].params, rows).value]
             counts == tally([i \in 1..rows |-> 0], data_, 1)
         IN  IF \E k \in 1..Len(get) : Len(pmfs[get[k]]) < rows THEN Raised
             ELSE Returned([i \in 1..rows |->
                      [value |-> Fx(i - 1),
                       p_measured |-> Frac(counts[i], Len(data_)),
                       pmf |-> [k \in 1..Len(get) |-> pmfs[get[k]][i]]]])

\* print_pmfs is called: the table is written and the run is over, or the
\* call raises.  (test_aic_ms and test_bic_ms print the designated model
\* just before.)
PrintPmfs ==
    /\ pc = "print_pmfs"
    /\ table' = print_pmfs(dtype, data, fit_results)
    /\ output' = ~table'.raised
    /\ pc' = (IF table'.raised THEN "aborted" ELSE "done")
    /\ UNCHANGED <<method, data, d_idx, fit_results, ic, dic, weights,
                   weights_total, best_model, best_ksd, r, p, printed>>
    /\ UNCHANGED <<synthetic, dtype>>
    /\ UNCHANGED notRunVars

InitSelect == RunInit({"aic", "bic"}) /\ KsIdle /\ SampleIdle /\ VariantIdle /\ CallIdle /\ FitImported /\ FitsIdle

NextSelect ==
    \/ PerformFitMle
    \/ PerformScore
    \/ PerformReport
    \/ PrintPmfs

\* model.py --select aic | bic
SpecSelect == InitSelect /\ [][NextSelect]_vars

InitSelectKs == RunInit({"ks"}) /\ KsIdle /\ SampleIdle /\ VariantIdle /\ CallIdle /\ FitImported /\ FitsIdle

NextSelectKs ==
    \/ PerformFitKs
    \/ PerformKsTrial
    \/ PerformKsPrintP
    \/ PrintPmfs

\* model.py --select ks
SpecSelectKs == InitSelectKs /\ [][NextSelectKs]_vars

InitSelectAll == InitSelect \/ InitSelectKs

NextSelectAll ==
    \/ PerformFitMle
    \/ PerformScore
    \/ PerformReport
    \/ PerformFitKs
    \/ PerformKsTrial
    \/ PerformKsPrintP
    \/ PrintPmfs

\* model.py --select aic | bic | ks
SpecSelectAll == InitSelectAll /\ [][NextSelectAll]_vars

\* The places a selection run can be at.
Positions == {"fit", "score", "report", "bootstrap", "print_pmfs", "done", "aborted"}

\* Where the run is: the statement, the variant and the trial.
position == <<pc, d_idx, r>>

\* The outline of a step of a run that is not over: the run gets to another
\* statement, variant or trial.
Proceeds ==
    /\ pc \notin {"done", "aborted"}
    /\ pc' \in Positions
    /\ d_idx' \in 1..Len(get)
    /\ r' \in 0..synthetic_samples_num

\* model.py --select aic | bic | ks, the interpreter running the statement
\* the run is at for as long as the run is not over.  Every step of a run
\* has the outline Proceeds (StepsProceed), every statement of a run that
\* is not over returns or raises, and no other process shares the run.
SpecSelectAllLive == SpecSelectAll /\ WF_position(Proceeds)

InitTests == RunInit({"test_aic", "test_bic"}) /\ KsIdle /\ SampleIdle /\ VariantIdle /\ CallIdle /\ FitImported /\ FitsIdle

NextTests ==
    \/ TestFitMle
    \/ TestScore
    \/ TestReport
    \/ PrintPmfs

\* model.py --test-aic-ms | --test-bic-ms
SpecTests == InitTests /\ [][NextTests]_vars

InitTestsKs == RunInit({"test_ks"}) /\ KsIdle /\ SampleIdle /\ VariantIdle /\ CallIdle /\ FitImported /\ FitsIdle

NextTestsKs ==
    \/ TestFitKs
    \/ TestKsTrial
    \/ TestKsPrintP
    \/ TestKsBestModel

\* model.py --test-ks-ms
SpecTestsKs == InitTestsKs /\ [][NextTestsKs]_vars

---------------------------------------------------------------------------
(* C1, C2: ks_statistics                                                   *)

\* The sequence s extended with trailing 1.0 values to length n.
PaddedWithOnes(s, n) == [i \in 1..n |-> IF i <= Len(s) THEN s[i] ELSE One]

LongerLen == IF Len(data_cdf_) > Len(model_cdf_) THEN Len(data_cdf_) ELSE Len(model_cdf_)

PointwiseDiff(i) ==
    Abs(PaddedWithOnes(data_cdf_, LongerLen)[i] - PaddedWithOnes(model_cdf_, LongerLen)[i])

\* C1: on two sequences of unequal length ks_statistics does not fail; the
\* shorter one, whichever argument it is, counts as extended with trailing
\* 1.0 values and the result is the maximum absolute pointwise difference;
\* ([0.2,0.4,0.6,0.8,1.0], [0.3,0.7,1.0]) gives 0.4.
C1_KsPadsShorterWithOnes ==
    (ksd.called /\ Len(data_cdf_) # Len(model_cdf_)) =>
        /\ ~ksd.raised
        /\ \E i \in 1..LongerLen : ksd.value = PointwiseDiff(i)
        /\ \A i \in 1..LongerLen : PointwiseDiff(i) <= ksd.value
        /\ (data_cdf_ = Scenario3A /\ model_cdf_ = Scenario3B) => ksd.value = 400

\* The call of scenario 3 has returned 0.4.
C1_Witness ==
    /\ ksd.called
    /\ data_cdf_ = Scenario3A
    /\ model_cdf_ = Scenario3B
    /\ ksd = Returned(400)

\* C2: for non-empty sequences with entries in [0,1], of equal or unequal
\* length, ks_statistics is symmetric, is 0 on equal arguments and lies in
\* [0,1].
C2_KsSymmetricZeroBounded ==
    (ksd.called /\ Len(data_cdf_) > 0 /\ Len(model_cdf_) > 0) =>
        /\ ~ksd.raised
        /\ ksd = ks_statistics(model_cdf_, data_cdf_)
        /\ (data_cdf_ = model_cdf_ => ksd.value = 0)
        /\ 0 <= ksd.value
        /\ ksd.value <= One

\* A call on non-empty sequences of unequal length where the model cdf is
\* the longer one and lies above the data cdf has returned a positive value.
C2_Witness ==
    /\ ksd.called
    /\ ~ksd.raised
    /\ Len(data_cdf_) > 0
    /\ Len(model_cdf_) > Len(data_cdf_)
    /\ \A i \in 1..Len(data_cdf_) : data_cdf_[i] < model_cdf_[i]
    /\ ksd.value > 0

---------------------------------------------------------------------------
(* C5, C6: get_sample_pmf, get_sample_cdf                                  *)

Floor(x) == x \div 1000

LargestSample == CHOOSE m \in {samples[j] : j \in 1..Len(samples)} :
                     \A j \in 1..Len(samples) : samples[j] <= m

\* The number of observations whose floor is v.
Observed(v) == Cardinality({j \in 1..Len(samples) : Floor(samples[j]) = v})

\* The number of observations whose floor is at most v.
ObservedUpTo(v) == Cardinality({j \in 1..Len(samples) : Floor(samples[j]) <= v})

RECURSIVE SumNum(_, _)
SumNum(s, k) == IF k = 0 THEN 0 ELSE SumNum(s, k - 1) + s[k].num

\* C5: for a non-empty sample of non-negative values get_sample_pmf returns
\* floor(max(sample))+1 entries, entry i being (observations whose floor is
\* i) / (sample size); the entries are non-negative and sum to 1.
C5_SamplePmfIsNormalisedHistogram ==
    (sample_pmf.called /\ Len(samples) > 0) =>
        /\ ~sample_pmf.raised
        /\ Len(sample_pmf.value) = Floor(LargestSample) + 1
        /\ \A i \in 1..Len(sample_pmf.value) :
              /\ sample_pmf.value[i] = Frac(Observed(i - 1), Len(samples))
              /\ sample_pmf.value[i].num >= 0
        /\ SumNum(sample_pmf.value, Len(sample_pmf.value)) = Len(samples)

\* get_sample_pmf has returned for a sample with a fractional observation,
\* a repeated value and an unobserved value below the maximum.
C5_Witness ==
    /\ sample_pmf.called
    /\ ~sample_pmf.raised
    /\ Len(samples) = 3
    /\ \E j \in 1..Len(samples) : samples[j] % 1000 # 0
    /\ \E i \in 1..Len(sample_pmf.value) : sample_pmf.value[i].num = 2
    /\ \E i \in 1..(Len(sample_pmf.value) - 1) : sample_pmf.value[i].num = 0

\* C6: for a non-empty sample of non-negative values get_sample_cdf has the
\* length of get_sample_pmf, each entry is the sum of the pmf entries up to
\* it, it is non-decreasing and its last entry is 1.
C6_SampleCdfIsPrefixSum ==
    (sample_cdf.called /\ Len(samples) > 0) =>
        /\ ~sample_cdf.raised
        /\ Len(sample_cdf.value) = Len(get_sample_pmf(samples).value)
        /\ \A i \in 1..Len(sample_cdf.value) :
              FracEq(sample_cdf.value[i],
                     Frac(SumNum(get_sample_pmf(samples).value, i), Len(samples)))
        /\ \A i \in 1..Len(sample_cdf.value) :
              FracEq(sample_cdf.value[i], Frac(ObservedUpTo(i - 1), Len(samples)))
        /\ \A i \in 1..(Len(sample_cdf.value) - 1) :
              FracLeq(sample_cdf.value[i], sample_cdf.value[i + 1])
        /\ FracEq(sample_cdf.value[Len(sample_cdf.value)], Frac(1, 1))

\* get_sample_cdf has returned a cdf of three entries that rises twice.
C6_Witness ==
    /\ sample_cdf.called
    /\ ~sample_cdf.raised
    /\ Len(sample_cdf.value) = 3
    /\ ~FracEq(sample_cdf.value[1], sample_cdf.value[2])
    /\ ~FracEq(sample_cdf.value[2], sample_cdf.value[3])
    /\ sample_cdf.value[1].num > 0

---------------------------------------------------------------------------
(* C3, C4, C7: perform_aic_test, perform_bic_test                          *)

Scored == pc \in {"report", "print_pmfs", "done"}

Reported == pc \in {"print_pmfs", "done"}

RECURSIVE SetSum(_, _)
SetSum(f, S) ==
    IF S = {} THEN 0
    ELSE LET k == CHOOSE k \in S : TRUE IN f[k] + SetSum(f, S \ {k})

\* C3: the AIC value of every variant of an AIC selection run is
\* -2*(ll - k), ll the fitted log-likelihood and k the length of the fitted
\* parameter vector; ll = -100 and k = 2 give 204.
C3_AicIsMinusTwoLlMinusK ==
    (method = "aic" /\ Scored) =>
        \A d \in Keys(ic) :
            LET ll == fit_results[d].log_likelihood
                k == Len(fit_results[d].params)
            IN  /\ ic[d] + 2 * ll = 2 * k * One
                /\ (ll = -100 * One /\ k = 2) => ic[d] = 204 * One

\* An AIC run is over in which a two-parameter variant was fitted with
\* log-likelihood -100 and a one-parameter variant with another one.
C3_Witness ==
    /\ method = "aic"
    /\ pc = "done"
    /\ \E d \in Keys(ic) :
          /\ fit_results[d].log_likelihood = -100 * One
          /\ Len(fit_results[d].params) = 2
          /\ ic[d] = 204 * One
    /\ \E d \in Keys(ic) :
          /\ fit_results[d].log_likelihood # -100 * One
          /\ Len(fit_results[d].params) = 1

\* C4: the BIC value of every variant of a BIC selection run is
\* -2*ll + k*ln(n), ll the fitted log-likelihood, k the length of the fitted
\* parameter vector and n the number of observations of the input sample;
\* ll = -100, k = 2, n = 1000 give 213.82 to two decimals.
C4_BicIsMinusTwoLlPlusKLnN ==
    /\ (method = "bic" /\ Scored) =>
          \A d \in Keys(ic) :
              ic[d] + 2 * fit_results[d].log_likelihood
                  = Len(fit_results[d].params) * ln(Len(data))
    /\ (method = "bic" /\ Scored /\ Len(data) = 1) =>
          \A d \in Keys(ic) : ic[d] = -2 * fit_results[d].log_likelihood
    /\ Abs(bic_measure(-100 * One, 2, 1000) - 213820) < 10

\* A BIC run on more than one observation is over, with one-parameter and
\* two-parameter variants scored.
C4_Witness ==
    /\ method = "bic"
    /\ pc = "done"
    /\ Len(data) > 1
    /\ \E d \in Keys(ic) :
          /\ Len(fit_results[d].params) = 2
          /\ ic[d] = -2 * fit_results[d].log_likelihood + 2 * ln(Len(data))
    /\ \E d \in Keys(ic) : Len(fit_results[d].params) = 1

\* C7: in perform_aic_test and perform_bic_test the delta reported for a
\* variant is its criterion minus the minimum over all variants, its weight
\* is exp(-delta/2) over the sum of exp(-delta/2) of all variants, and the
\* reported weights sum to 1 (to the rounding of the divisions, half a unit
\* of the last place each).
C7_WeightsNormalised ==
    (method \in {"aic", "bic"}) =>
        /\ \A d \in Keys(printed) :
              /\ \A e \in Keys(ic) : ic[d] - ic[e] <= printed[d].delta
              /\ \E e \in Keys(ic) : printed[d].delta = ic[d] - ic[e]
              /\ printed[d].w =
                    fx_div(exp(-(printed[d].delta \div 2)),
                           SetSum([e \in Keys(ic) |-> exp(-((ic[e] - min_values(ic)) \div 2))],
                                  Keys(ic)))
        /\ Reported =>
              /\ Keys(printed) = {get[i] : i \in 1..Len(get)}
              /\ 2 * Abs(SetSum([e \in Keys(printed) |-> printed[e].w], Keys(printed)) - One)
                     <= Len(get)

\* A run has reported all variants, with three different weights.
C7_Witness ==
    /\ method \in {"aic", "bic"}
    /\ pc = "done"
    /\ \E d1, d2, d3 \in Keys(printed) :
          /\ printed[d1].w > printed[d2].w
          /\ printed[d2].w > printed[d3].w
          /\ printed[d3].w > 0
          /\ printed[d1].delta = 0

---------------------------------------------------------------------------
(* C8, C9: test_aic_ms, test_bic_ms                                        *)

\* C8: the variant test_aic_ms / test_bic_ms reports as the most likely
\* model has the minimum criterion value of all variants.
C8_BestModelHasMinimumCriterion ==
    (method \in {"test_aic", "test_bic"} /\ Reported) =>
        \A d \in Keys(ic) : ic[best_model] <= ic[d]

\* C9: after the reporting loop of test_aic_ms / test_bic_ms the printed
\* weights sum to 1 (to the rounding of the divisions).
C9_PrintedWeightsSumToOne ==
    (method \in {"test_aic", "test_bic"} /\ Reported) =>
        2 * Abs(SetSum([e \in Keys(printed) |-> printed[e].w], Keys(printed)) - One)
            <= Len(get)

---------------------------------------------------------------------------
(* C10: test_ks_ms                                                         *)

IndexOf(d) == CHOOSE i \in 1..Len(get) : get[i] = d

\* C10: the model test_ks_ms designates has the minimum fitted D of all
\* variants, and every variant scanned before it has a strictly larger D.
C10_BestKsIsFirstMinimum ==
    (method = "test_ks" /\ pc \in {"best_model", "done"}) =>
        /\ \A d \in Keys(fit_results) :
              fit_results[best_model].D <= fit_results[d].D
        /\ \A i \in 1..(IndexOf(best_model) - 1) :
              fit_results[get[i]].D > fit_results[best_model].D

\* A K-S test run is over in which the minimum D is shared by two variants,
\* neither the first of the list, and the earlier one is designated.
C10_Witness ==
    /\ method = "test_ks"
    /\ pc = "done"
    /\ best_model # get[1]
    /\ \E i \in (IndexOf(best_model) + 1)..Len(get) :
          fit_results[get[i]].D = fit_results[best_model].D
    /\ fit_results[get[1]].D > fit_results[best_model].D

---------------------------------------------------------------------------
(* C11: the bootstrap p-value of the K-S runs                              *)

\* The variant whose p-value was printed last.
LastPrinted == IF pc = "fit" THEN get[d_idx - 1] ELSE get[Len(get)]

\* The synthetic samples of the current variant whose D is above `D`.
Exceeding(D) == {i \in 1..Len(synthetic) : synthetic[i].ksd > D}

\* C11: in a K-S run every variant gets exactly synthetic_samples_num
\* synthetic samples, each of the size of the observed sample; the p-value
\* printed for it is the number of samples whose D is strictly above the
\* fitted D over synthetic_samples_num, so it lies in [0,1] and a synthetic D
\* equal to the fitted one does not count.
C11_PValueIsFractionOfExceedingTrials ==
    (method \in {"ks", "test_ks"}) =>
        /\ pc = "bootstrap" =>
              /\ Len(synthetic) = r
              /\ r <= synthetic_samples_num
              /\ p = Cardinality(Exceeding(fit_results[get[d_idx]].D))
        /\ \A i \in 1..Len(synthetic) : synthetic[i].size = Len(data)
        /\ \A d \in Keys(printed) : 0 <= printed[d].p /\ printed[d].p <= One
        /\ (pc \in {"fit", "print_pmfs", "best_model", "done"} /\ Keys(printed) # {}) =>
              /\ Len(synthetic) = synthetic_samples_num
              /\ printed[LastPrinted].p =
                    fx_div(Fx(Cardinality(Exceeding(fit_results[LastPrinted].D))),
                           Fx(synthetic_samples_num))

\* A K-S selection run is over; the last variant had a synthetic D equal to
\* its fitted D and another one above it, and an earlier variant a p-value
\* of 0.
C11_Witness ==
    /\ method = "ks"
    /\ pc = "done"
    /\ Len(data) = 2
    /\ \E i \in 1..Len(synthetic) : synthetic[i].ksd = fit_results[LastPrinted].D
    /\ \E i \in 1..Len(synthetic) : synthetic[i].ksd > fit_results[LastPrinted].D
    /\ printed[LastPrinted].p > 0
    /\ printed[LastPrinted].p < One
    /\ \E d \in Keys(printed) : printed[d].p = 0

---------------------------------------------------------------------------
(* C12 .. C16: the variant classes                                          *)

\* The entries of a returned pmf.
Entries == v_pmf.value.value

\* The parameters are on the kernel branch of pmf (none is degenerate).
OnKernel == pmf_branch(v_cls, v_params) = Kernel

\* C12: for every class, pmf, samples and log_likelihood take the same
\* degenerate-substitution decision for the same parameters: the same
\* fallback (or the kernel) with the same location.
C12_SameSubstitutionDecision ==
    /\ (v_pmf.called /\ v_samples.called /\ ~v_samples.raised) =>
          v_pmf.value.via = v_samples.value.via
    /\ (v_pmf.called /\ v_ll.called) => v_pmf.value.via = v_ll.value.via

\* C13: Poisson.pmf with lambda below EPSILON returns the pmf of Delta(0):
\* domain + 1 entries, the first 1, every other 0.
C13_PoissonBelowEpsilonIsDeltaZero ==
    (v_cls = "Poisson" /\ v_params[1] < EPSILON /\ v_pmf.called) =>
        /\ Len(Entries) = v_domain + 1
        /\ Entries[1] = One
        /\ \A i \in 2..Len(Entries) : Entries[i] = 0

C13_Witness ==
    /\ v_cls = "Poisson"
    /\ v_params[1] < EPSILON
    /\ v_domain = MaxDomain
    /\ v_pmf.called
    /\ v_pmf.value.via = ViaDelta(0)
    /\ Len(Entries) = MaxDomain + 1

\* C14: pmf returns exactly domain + 1 entries for every class, every
\* parameter vector and every domain >= 0.
C14_PmfHasDomainPlusOneEntries ==
    v_pmf.called => Len(Entries) = v_domain + 1

\* C15: samples returns exactly `size` draws.
C15_SamplesHasSizeDraws ==
    (v_samples.called /\ ~v_samples.raised) =>
        Len(v_samples.value.value) = v_size

\* The rounding the sum of n entries of three decimals may carry.
SumTolerance(n) == n

\* C16: for parameters that are not degenerate, the entries of pmf are
\* non-negative and finite and sum to 1, for every domain size.
C16_PmfIsNormalised ==
    (v_pmf.called /\ OnKernel) =>
        /\ \A i \in 1..Len(Entries) : Entries[i] # nan /\ Entries[i] >= 0
        /\ np_sum(Entries) - One <= SumTolerance(Len(Entries))
        /\ One - np_sum(Entries) <= SumTolerance(Len(Entries))

---------------------------------------------------------------------------
(* C17, C18: what the entry points do with a bad tag or a bad sample        *)

\* The tag names a registered variant.
Registered == \E i \in 1..Len(get) : get[i] = q_distribution

\* The sample has no observation, or none above zero.
NoPositiveMaximum == \A i \in 1..Len(q_data) : q_data[i] <= 0

\* C17: a tag that names no registered variant is answered with an error by
\* pmf, cdf, sample, log_likelihood, get_params, fit_mle and fit_ks.
C17_UnknownTagRaises ==
    (q_result.called /\ ~Registered) => q_result.raised

\* C18 as stated: an empty sample and a sample whose maximum is not positive
\* are both rejected with an error by fit_mle and fit_ks, for every variant.
C18_EmptyOrAllZeroSampleRaises ==
    (q_entry \in {"fit_mle", "fit_ks"} /\ Registered /\ NoPositiveMaximum) =>
        q_result.raised

\* C18: an empty sample is rejected with an error by fit_mle and fit_ks, for
\* every variant, and no fit result is returned.
C18_EmptySampleRaises ==
    (q_entry \in {"fit_mle", "fit_ks"} /\ Registered /\ Len(q_data) = 0) =>
        q_result.raised

C18_Witness ==
    /\ q_entry = "fit_ks"
    /\ q_distribution = DISTRIBUTION_WEIBULL
    /\ q_data = <<>>
    /\ q_result.called
    /\ q_result.raised

---------------------------------------------------------------------------
(* C19, C20: the order of a selection run                                   *)

\* Every registered variant has a fit result.
AllFitted == \A i \in 1..Len(get) : get[i] \in Keys(fit_results)

\* The step fits one variant that had no result and keeps the others.
FitsOneNewVariant ==
    \E d \in Keys(fit_results') \ Keys(fit_results) :
        /\ Keys(fit_results') = Keys(fit_results) \cup {d}
        /\ \A e \in Keys(fit_results) : fit_results'[e] = fit_results[e]

\* C19: in a selection run every variant is fitted exactly once, and a fit
\* that raises ends the run: no later variant is fitted and the table of
\* the fitted pmfs is not produced.
C19_FitOnceAndAbortOnError ==
    /\ [](pc = "aborted" => ~output)
    /\ [](pc \in {"print_pmfs", "done"} => AllFitted)
    /\ [][ /\ fit_results' # fit_results => FitsOneNewVariant
           /\ pc = "aborted" => (pc' = "aborted" /\ fit_results' = fit_results
                                    /\ output' = output) ]_vars

C19_Witness ==
    /\ method = "bic"
    /\ pc = "aborted"
    /\ d_idx = 3
    /\ Keys(fit_results) = {get[1], get[2]}
    /\ ~output

\* A score of some variant exists: a criterion, a weight, or a bootstrap
\* count or p-value.
SomeScore ==
    \/ Keys(ic) # {}
    \/ Keys(weights) # {}
    \/ Keys(printed) # {}
    \/ pc = "bootstrap" /\ r > 0

---------------------------------------------------------------------------
(* C21: the registry                                                        *)

\* The tags of the seven variants the registry is said to hold.
SevenVariants ==
    {"poisson", "exponential", "lognormal", "weibull", "shifted-power-law",
     "truncated-power-law", "normal"}

\* The number of parameters of each of them.
Arity(tag) == IF tag \in {"poisson", "exponential"} THEN 1 ELSE 2

\* C21: each of the seven variants (Normal included) is in the registry
\* list, is dispatched by pmf, sample, log_likelihood and get_params, and
\* has a fitting seed of the length of its parameter arity.
C21_SevenVariantsRegistered ==
    (q_result.called /\ q_distribution \in SevenVariants) =>
        /\ \E i \in 1..Len(get) : get[i] = q_distribution
        /\ q_distribution \in DOMAIN INITIAL_FITTING_PARAMS
        /\ Len(INITIAL_FITTING_PARAMS[q_distribution]) = Arity(q_distribution)
        /\ q_entry \in {"pmf", "sample", "log_likelihood", "get_params"} =>
              "none" \notin DOMAIN q_result

---------------------------------------------------------------------------
(* C22: TruncatedPowerLaw                                                   *)

\* The branch the priority order gives for (gamma, kappa).
TruncatedExpected ==
    IF v_params[1] < EPSILON THEN ViaUniform
    ELSE IF v_params[2] < EPSILON THEN ViaDelta(One)
    ELSE IF polylog(v_params[1], mp_exp(-fx_div(One, v_params[2]))) < EPSILON
         THEN ViaDelta(One)
         ELSE Kernel

\* C22: TruncatedPowerLaw.pmf, samples and log_likelihood all choose
\* Uniform when gamma < EPSILON (whatever kappa is), otherwise Delta(1)
\* when kappa < EPSILON, otherwise Delta(1) when the polylogarithm is below
\* EPSILON, otherwise the kernel; the kernel's pmf is 0 at x = 0.
C22_TruncatedPowerLawPriority ==
    v_cls = "TruncatedPowerLaw" =>
        /\ v_pmf.called =>
              /\ v_pmf.value.via = TruncatedExpected
              /\ TruncatedExpected = ViaUniform =>
                    \A i \in 1..Len(Entries) : Entries[i] = fx_div(One, Fx(v_domain + 1))
              /\ TruncatedExpected = ViaDelta(One) =>
                    \A i \in 1..Len(Entries) : Entries[i] = (IF i = 2 THEN One ELSE 0)
              /\ TruncatedExpected = Kernel =>
                    Len(Entries) = v_domain + 1 /\ Entries[1] = 0
        /\ (v_samples.called /\ ~v_samples.raised) =>
              /\ v_samples.value.via = TruncatedExpected
              /\ TruncatedExpected = ViaDelta(One) =>
                    \A i \in 1..Len(v_samples.value.value) :
                        v_samples.value.value[i] = One
              /\ TruncatedExpected = Kernel =>
                    \A i \in 1..Len(v_samples.value.value) :
                        v_samples.value.value[i] >= One
        /\ v_ll.called => v_ll.value.via = TruncatedExpected

C22_Witness ==
    /\ v_cls = "TruncatedPowerLaw"
    /\ v_params[1] < EPSILON
    /\ v_params[2] < EPSILON
    /\ v_pmf.called /\ v_pmf.value.via = ViaUniform
    /\ v_samples.called /\ ~v_samples.raised /\ v_samples.value.via = ViaUniform
    /\ v_ll.called /\ v_ll.value.via = ViaUniform

---------------------------------------------------------------------------
(* C23: ShiftedPowerLaw                                                     *)

\* The branch the rule gives for (gamma, x0).
ShiftedExpected ==
    IF v_params[1] < EPSILON
    THEN IF v_params[2] < EPSILON THEN ViaDelta(0) ELSE ViaUniform
    ELSE IF zeta(v_params[1], v_params[2]) < EPSILON THEN ViaDelta(0) ELSE Kernel

\* C23: ShiftedPowerLaw is Delta(0) for gamma < EPSILON and x0 < EPSILON,
\* Uniform over the requested domain for gamma < EPSILON otherwise, Delta(0)
\* for a zeta normalizer below EPSILON, and the kernel otherwise; pmf and
\* samples honour the same domain: pmf has the entries of 0..domain and
\* every draw of samples lies in 0..domain.
C23_ShiftedPowerLawBranchesAndDomain ==
    v_cls = "ShiftedPowerLaw" =>
        /\ v_pmf.called =>
              /\ v_pmf.value.via = ShiftedExpected
              /\ Len(Entries) = v_domain + 1
        /\ (v_samples.called /\ ~v_samples.raised) =>
              /\ v_samples.value.via = ShiftedExpected
              /\ \A i \in 1..Len(v_samples.value.value) :
                    /\ 0 <= v_samples.value.value[i]
                    /\ v_samples.value.value[i] <= Fx(v_domain)

---------------------------------------------------------------------------
(* C24: Weibull                                                             *)

\* 0 <= k - 1 < EPSILON: the shape at which x = 0 carries the weight 1/lambda.
ShapeIsOne == 0 <= v_params[1] - One /\ v_params[1] - One < EPSILON

WeibullExpected ==
    IF v_params[1] < EPSILON \/ v_params[2] < EPSILON THEN ViaDelta(0) ELSE Kernel

\* The un-normalised weight of x = 0.
WeightAtZero == IF ShapeIsOne THEN fx_div(One, v_params[2]) ELSE 0

\* C24: Weibull falls back to Delta(0) in every operation when k < EPSILON
\* or lambda < EPSILON; otherwise x = 0 has the weight 1/lambda exactly when
\* 0 <= k-1 < EPSILON, and pmf, samples and log_likelihood agree on it:
\* pmf[0] > 0 only then, samples returns 0 only then, and the normalizer of
\* log_likelihood contains the weight of x = 0 exactly then.
C24_WeibullSupportAtZero ==
    v_cls = "Weibull" =>
        /\ v_pmf.called =>
              /\ v_pmf.value.via = WeibullExpected
              /\ (WeibullExpected = Kernel /\ v_domain > 0) =>
                    (Entries[1] > 0 <=> ShapeIsOne)
        /\ (v_samples.called /\ ~v_samples.raised) =>
              /\ v_samples.value.via = WeibullExpected
              /\ WeibullExpected = Kernel =>
                    \A i \in 1..Len(v_samples.value.value) :
                        v_samples.value.value[i] = 0 => ShapeIsOne
        /\ v_ll.called =>
              /\ v_ll.value.via = WeibullExpected
              /\ WeibullExpected = Kernel =>
                    np_sum(v_ll.value.terms.c_terms) =
                        WeightAtZero
                        + np_sum(weibull_weights(v_params,
                                                 np_arange(1, DEFAULT_PDF_MAX + 1)))

---------------------------------------------------------------------------
(* C25: nonzero_only                                                        *)

\* A log_likelihood call of a registered variant that took the kernel branch.
KernelLogLikelihoodCalled ==
    /\ q_entry = "log_likelihood"
    /\ q_distribution \in {get[i] : i \in 1..Len(get)}
    /\ q_result.called /\ ~q_result.raised
    /\ "none" \notin DOMAIN q_result
    /\ q_result.value.via = Kernel

\* C25: on the kernel branch of every registered variant the dispatcher's
\* log_likelihood with nonzero_only = TRUE leaves the zero observations out
\* (it is the nonzero_only = FALSE log-likelihood of the sample without its
\* zeros), and with nonzero_only = FALSE it counts every observation.
C25_NonzeroOnlyExcludesZeros ==
    KernelLogLikelihoodCalled =>
        IF q_nonzero_only
        THEN q_result.value.terms =
                dist_log_likelihood(q_distribution, q_params,
                                    where_positive(q_data), FALSE).value.terms
        ELSE q_result.value.terms.len_of = q_data

---------------------------------------------------------------------------
(* C26: the arguments of the logarithms                                     *)

\* C26: for every variant and fallback, every parameter vector and every
\* non-empty sample of non-negative integers, zeros and all-zero samples
\* included, log_likelihood takes the logarithm of positive numbers only.
C26_NoLogOfNonPositive ==
    (v_ll.called /\ ~v_ll.raised) =>
        \A i \in 1..Len(v_ll.value.terms.logs) : v_ll.value.terms.logs[i] > 0

---------------------------------------------------------------------------
(* C28: the seed table and the results already returned                     *)

\* C28: every fit starts from the seed written in INITIAL_FITTING_PARAMS;
\* after any sequence of fits the table holds the values it was written
\* with; and a fit result already returned is not changed by a later fit,
\* by the bootstrap sampling or by the export of the pmf table.
C28_SeedsAndEarlierResultsKept ==
    /\ [](seeds = INITIAL_FITTING_PARAMS)
    /\ [](\A i \in 1..Len(fit_calls) :
            fit_calls[i].x0 = INITIAL_FITTING_PARAMS[fit_calls[i].distribution])
    /\ [][\A d \in Keys(fit_results) :
            d \in Keys(fit_results') /\ fit_results'[d] = fit_results[d]]_vars

\* A K-S run has fitted every variant, each at a point other than its seed,
\* drawn its synthetic samples and written the table.
C28_Witness ==
    /\ method = "ks"
    /\ pc = "done"
    /\ output
    /\ Len(fit_calls) = Len(get)
    /\ \A i \in 1..Len(get) :
          /\ get[i] \in Keys(fit_results)
          /\ fit_results[get[i]].params # INITIAL_FITTING_PARAMS[get[i]]
          /\ fit_calls[i].result = Returned(fit_results[get[i]])

---------------------------------------------------------------------------
(* C29: print_pmfs                                                          *)

\* The largest observation of the run's sample, as an integer.
TopValue == Floor(np_max(data).value)

\* The number of observations of the run's sample whose floor is v.
ObservedInData(v) == Cardinality({j \in 1..Len(data) : Floor(data[j]) = v})

RECURSIVE SumMeasured(_, _)
SumMeasured(rows, k) ==
    IF k = 0 THEN 0 ELSE SumMeasured(rows, k - 1) + rows[k].p_measured.num

\* The rows are one per integer 0..max(data), in increasing order, each with
\* the empirical probability of its value and the fitted pmf of every
\* registered variant at its value, in registry order.
RowsAsStated(rows) ==
    /\ Len(rows) = TopValue + 1
    /\ \A i \in 1..Len(rows) :
          /\ rows[i].value = Fx(i - 1)
          /\ rows[i].p_measured = Frac(ObservedInData(i - 1), Len(data))
          /\ Len(rows[i].pmf) = Len(get)
          /\ \A k \in 1..Len(get) :
                rows[i].pmf[k] =
                    dist_pmf(get[k], fit_results[get[k]].params, TopValue + 1).value[i]
    /\ SumMeasured(rows, Len(rows)) = Len(data)

\* C29: print_pmfs exports exactly one row per integer 0..max(data), in
\* increasing order; a row holds the value, the empirical probability (the
\* observations with that floor over the sample size) and one fitted-pmf
\* entry per registered variant in registry order; the empirical column
\* sums to 1; and the input data are left as they were.
C29_PrintPmfsRows ==
    /\ [](table.called => (~table.raised /\ RowsAsStated(table.value)))
    /\ [][data' = data]_vars

---------------------------------------------------------------------------
(* C27: fits are functions of the variant and the sample                    *)

SameFit(a, b) ==
    a.kind = b.kind /\ a.distribution = b.distribution /\ a.data = b.data

\* C27: a fit result depends on the variant and the sample only: in
\* whatever order fits are made, fit_mle, and fit_ks likewise, returns the
\* same result for the same variant and sample, and no fit changes the
\* sample it is given.
C27_FitsDependOnVariantAndSampleOnly ==
    /\ [](\A i, j \in 1..Len(fit_calls) :
            SameFit(fit_calls[i], fit_calls[j]) =>
                fit_calls[i].result = fit_calls[j].result)
    /\ [][f_data' = f_data]_vars

\* A variant was fitted, then another one, then the first one again by the
\* same method on the same sample, and the two results are the same.
C27_Witness ==
    /\ Len(fit_calls) = 3
    /\ SameFit(fit_calls[1], fit_calls[3])
    /\ fit_calls[2].distribution # fit_calls[1].distribution
    /\ ~fit_calls[3].result.raised
    /\ fit_calls[1].result = fit_calls[3].result
    /\ fit_calls[3].result.value.params # fit_calls[3].x0

---------------------------------------------------------------------------
(* C30: selection runs terminate                                            *)

\* A search of the optimizer did not return: a fit of a non-empty sample
\* raised (a fit of the empty sample raises outside the search).
SearchRaised ==
    \E i \in 1..Len(fit_calls) :
        fit_calls[i].result.raised /\ fit_calls[i].data # <<>>

\* The run is over: it returned or an exception left it.
Terminated == pc \in {"done", "aborted"}

\* The run has got to its last step, the export of the report table, after
\* exactly one fit of every registered variant in registry order and, in a
\* K-S run, the p-value of every variant.
ReportReached ==
    /\ pc = "print_pmfs" \/ table.called
    /\ Len(fit_calls) = Len(get)
    /\ \A i \in 1..Len(get) :
          /\ fit_calls[i].distribution = get[i]
          /\ ~fit_calls[i].result.raised
          /\ get[i] \in Keys(fit_results)
          /\ method = "ks" => get[i] \in Keys(printed)

\* A K-S run draws at most synthetic_samples_num synthetic samples for a
\* variant and prints the variant's p-value after exactly that many.
FixedTrialCount ==
    /\ [](r <= synthetic_samples_num /\ Len(synthetic) = r)
    /\ [][(method = "ks" /\ printed' # printed) =>
              (r = synthetic_samples_num /\ pc = "bootstrap")]_vars

\* Every step of a run moves it to another statement, variant or trial.
StepsProceed == [][pc \notin {"done", "aborted"} /\ position' # position]_vars

\* C30 as stated: provided every search of the optimizer returns, every
\* selection run, whatever its sample, makes exactly one fit per registered
\* variant, in a K-S run exactly synthetic_samples_num trials per variant,
\* and then reaches the Report step.
C30_EveryRunReachesReport ==
    /\ FixedTrialCount
    /\ <>Terminated
    /\ <>(SearchRaised \/ ReportReached)

\* C30: provided every search of the optimizer returns, every selection
\* run terminates; on a non-empty sample it makes exactly one fit per
\* registered variant, in a K-S run exactly synthetic_samples_num trials per
\* variant, and then reaches the Report step; on the empty sample the first
\* fit raises and the run ends there.
C30_RunsTerminate ==
    /\ FixedTrialCount
    /\ StepsProceed
    /\ <>Terminated
    /\ <>(SearchRaised \/ data = <<>> \/ ReportReached)
    /\ [](data = <<>> => (fit_results = EmptyDict /\ ~table.called))

\* A K-S run on a sample of floats has fitted every variant, drawn the
\* synthetic samples of each and got to print_pmfs.
C30_Witness ==
    /\ method = "ks"
    /\ dtype = "float64"
    /\ Terminated
    /\ ReportReached
    /\ r = synthetic_samples_num

===========================================================================
